---- MODULE Spec2Model ----
(***************************************************************************)
(* Codeless v4 compiler pipeline: module resolver, lexer, parser and the   *)
(* raw-body extractor, as state machines translated from the sources.      *)
(***************************************************************************)
EXTENDS Integers, Sequences, FiniteSets, TLC

\* ------------------------------------------------------------------ bounds
\* number of file paths of the modelled file system
NumFiles == 3
\* total number of import statements over all files
MaxEdges == 3
\* length of the text after the opening brace given to extractRawBlock
MaxBodyLen == 5
\* length of the texts given to locateBraceInSource, and the lines asked for
MaxLocLen == 5
MaxLine == 3
\* length of the texts given to lex
MaxLexLen == 3
\* length of the do-block bodies given to parse, and declarations per text
MaxDoBody == 3
MaxDecls == 2
\* number of fields of the schemas given to the generated validators
MaxFields == 2
\* steps of a route's pipeline, and requests in flight at once
MaxPipeline == 2
NumRequests == 2
\* columns of a table handed to the statement templates
MaxCols == 3
\* keys of the where object of a list query
MaxKeys == 2
\* calls made on one sugar object
MaxSugarCalls == 3
\* calls of compile on one project directory
MaxCompiles == 3
\* child processes the dev supervisor spawns, and firings of its debounce timer
MaxSpawns == 3
MaxRebuilds == 3
\* the connection pool: its size limit, the callers, and the acquire calls made
maxSize == 2
NumClients == 4
MaxAcquires == 5
\* clients of the pg pool, and statements one transaction callback runs
PgPoolSize == 3
MaxStatements == 2

VARIABLES
    \* module resolver (resolver.js)
    fsys,          \* the file system: path -> [status, ast]
    loading,       \* Set of paths being loaded
    resolvedASTs,  \* Map path -> ast, as a sequence in insertion order
    stack,         \* active loadModule frames: [path, idx], innermost last
    rpc,           \* "idle" | "loading" | "throwing" | "failed" | "done"
    rerr,          \* the Error raised: [kind, names]
    mergedAST,     \* the result of resolveModules
    reads          \* path -> number of readFileSync + parse calls

rvars == <<fsys, loading, resolvedASTs, stack, rpc, rerr, mergedAST, reads>>

VARIABLES
    \* source-utils.js, called on a source text
    src,           \* the source text, a sequence of characters
    sop,           \* the last call: "none" | "extract" | "locate"
    sarg,          \* its argument: openBraceIndex or line
    sres           \* what it returned or threw

svars == <<src, sop, sarg, sres>>

VARIABLES
    \* lexer.js: lex(src)
    lx,            \* [i, line, column, tokens] of the running lex call
    lpc            \* "scan" | "done" | "off"

lvars == <<lx, lpc>>

VARIABLES
    \* parser.js: parse(src)
    tokens,        \* the token list lex(src)
    pos,           \* the token cursor
    ast,           \* the tree under construction
    ppc,           \* "start" | "top" | "done" | "error" | "off"
    perr,          \* the Error thrown
    skipped        \* history: the tokens passed by a bare pos++ inside a construct

pvars == <<tokens, pos, ast, ppc, perr, skipped>>

VARIABLES
    \* aot-validation.js: a call validate_<Schema>(data) of the generated function
    vschema,       \* the data block the function was generated from
    vdata,         \* the argument
    vi,            \* index of the next field of the schema
    vresult,       \* result
    vpc,           \* "idle" | "fields" | "returned" | "thrown" | "off"
    verr           \* the Error thrown

vvars == <<vschema, vdata, vi, vresult, vpc, verr>>

VARIABLES
    \* compiler.js bootstrap: one registered route and the requests to it
    pipeline,        \* route.pipeline
    reqs,            \* per request: position, credentials, ctx, step index, calls, responses
    activeRequests   \* metrics.activeRequests

hvars == <<pipeline, reqs, activeRequests>>

VARIABLES
    \* query-builder: one table, its columns, the dialect, and the last statement built
    qtable,          \* table
    qcolumns,        \* columns
    qadapter,        \* adapter
    qop,             \* which template was called last
    qsql             \* the text it returned, in pieces

qvars == <<qtable, qcolumns, qadapter, qop, qsql>>

VARIABLES
    \* list queries: aot_db.<Table>.findAll and sugar.all down to the adapter
    fcall,           \* the call: api, table, where, orderBy, tableColumns, adapter
    fpc,             \* "idle" | "check" | "adapter" | "returned" | "thrown"
    ferr,            \* the error thrown
    fargs,           \* the arguments of each db.findAll call
    fsql             \* the SQL text the adapter built, in pieces

fvars == <<fcall, fpc, ferr, fargs, fsql>>

VARIABLES
    \* sugar object (runtime/sugar.js) over one adapter
    glog,            \* the calls the adapter received: method and tables touched
    gcall,           \* the last sugar call
    gout             \* how it ended

gvars == <<glog, gcall, gout>>

VARIABLES
    \* compile (compiler/compile.js) and the output files it writes
    cpc,             \* the statement compile is at
    cfs,             \* the output directory and files: 0 = absent, n = text of the n-th call
    cbefore,         \* cfs when the running call began
    ccalls,          \* calls made so far
    cerr             \* the error the call raised

cvars == <<cpc, cfs, cbefore, ccalls, cerr>>

VARIABLES
    \* aot_db helpers of one table (codegen) and its prepared statements
    aop,             \* the helper called last
    acolumns,        \* the names of the data block's fields
    aadapter,        \* adapter
    abound,          \* the values the call site binds, or the error of its text
    atemplate        \* the statement of PREP[t] it binds them to

avars == <<aop, acolumns, aadapter, abound, atemplate>>

VARIABLES
    \* dev supervisor (cli/dev.ts)
    serverProcess,         \* the child it refers to: an index of children, 0 = null
    children,              \* every child spawned: "running", "signalled" or "exited"
    rebuildDebounceTimer,  \* a debounce timer is pending
    rebuilds               \* the timer callbacks started: where each is, and the child it waits for

dvars == <<serverProcess, children, rebuildDebounceTimer, rebuilds>>

VARIABLES
    \* DatabasePool (compiler.js)
    pool,            \* idle connections
    inUse,           \* connections handed out
    waitingQueue,    \* the callers whose acquire waits, as their resolve functions
    created,         \* connections opened so far; connection n is the n-th opened
    held,            \* per caller the connection its acquire gave it, 0 = none
    ticket,          \* per waiting caller the number of its acquire call, 0 = not waiting
    acquires,        \* acquire calls made so far
    handed           \* connections passed on to a waiting caller so far

bvars == <<pool, inUse, waitingQueue, created, held, ticket, acquires, handed>>

VARIABLES
    \* PostgresAdapter.transaction (runtime/adapters/postgres.js) over a pg pool
    tpc,             \* the statement transaction() is at
    tclient,         \* the client it took from the pool, 0 = none
    tstmts,          \* the statements its callback ran: on which client, inside an open block or not
    tresult,         \* how the block ended: "COMMIT", "ROLLBACK" or "none"
    checkedOut       \* the clients other requests hold

tvars == <<tpc, tclient, tstmts, tresult, checkedOut>>

vars == <<rvars, svars, lvars, pvars, vvars, hvars, qvars, fvars, gvars, cvars, avars, dvars, bvars, tvars>>

\* what the actions of each component leave alone
notResolver == <<svars, lvars, pvars, vvars, hvars, qvars, fvars, gvars, cvars, avars, dvars, bvars, tvars>>
notSource == <<rvars, lvars, pvars, vvars, hvars, qvars, fvars, gvars, cvars, avars, dvars, bvars, tvars>>
notLexer == <<rvars, sop, sarg, sres, pvars, vvars, hvars, qvars, fvars, gvars, cvars, avars, dvars, bvars, tvars>>
notParser == <<rvars, sop, sarg, sres, lvars, vvars, hvars, qvars, fvars, gvars, cvars, avars, dvars, bvars, tvars>>
notValidator == <<rvars, svars, lvars, pvars, hvars, qvars, fvars, gvars, cvars, avars, dvars, bvars, tvars>>
notRoute == <<rvars, svars, lvars, pvars, vvars, qvars, fvars, gvars, cvars, avars, dvars, bvars, tvars>>
notQuery == <<rvars, svars, lvars, pvars, vvars, hvars, fvars, gvars, cvars, avars, dvars, bvars, tvars>>
notList == <<rvars, svars, lvars, pvars, vvars, hvars, qvars, gvars, cvars, avars, dvars, bvars, tvars>>
notSugar == <<rvars, svars, lvars, pvars, vvars, hvars, qvars, fvars, cvars, avars, dvars, bvars, tvars>>
notCompile == <<rvars, svars, lvars, pvars, vvars, hvars, qvars, fvars, gvars, avars, dvars, bvars, tvars>>
notAot == <<rvars, svars, lvars, pvars, vvars, hvars, qvars, fvars, gvars, cvars, dvars, bvars, tvars>>
notDev == <<rvars, svars, lvars, pvars, vvars, hvars, qvars, fvars, gvars, cvars, avars, bvars, tvars>>
notPool == <<rvars, svars, lvars, pvars, vvars, hvars, qvars, fvars, gvars, cvars, avars, dvars, tvars>>
notTransaction == <<rvars, svars, lvars, pvars, vvars, hvars, qvars, fvars, gvars, cvars, avars, dvars, bvars>>

\* ------------------------------------------------------------------ helpers
Range(s) == {s[i] : i \in DOMAIN s}

RECURSIVE Concat(_)
Concat(ss) == IF ss = <<>> THEN <<>> ELSE Head(ss) \o Concat(Tail(ss))

\* ------------------------------------------------------------------ files
Paths == 1..NumFiles
Entry == 1

EmptyAST == [dataBlocks |-> <<>>, doBlocks |-> <<>>, routeLines |-> <<>>,
             migrations |-> <<>>, imports |-> <<>>]

NoError == [kind |-> "none", names |-> {}]

\* A declaration carries its key and, standing for its content, the place
\* <<file, index>> it was written at.
DataBlock(n, p, k) == [name |-> n, origin |-> <<p, k>>]
DoBlock(n, p, k) == [name |-> n, origin |-> <<p, k>>]
RouteLine(m, pa, p, k) == [method |-> m, path |-> pa, origin |-> <<p, k>>]
Migration(v, p, k) == [version |-> v, origin |-> <<p, k>>]

\* The declarations written in file p: one of three texts, rotated over the
\* files by v.
DeclsOf(p, v) ==
    LET t == (p + v) % 3 IN
    IF t = 0 THEN [dataBlocks |-> <<>>, doBlocks |-> <<>>, routeLines |-> <<>>,
                   migrations |-> <<>>]
    ELSE IF t = 1 THEN
        [dataBlocks |-> <<DataBlock("U", p, 1), DataBlock("T", p, 2)>>,
         doBlocks   |-> <<DoBlock("x", p, 1)>>,
         routeLines |-> <<RouteLine("GET", "/a", p, 1)>>,
         migrations |-> <<Migration("1", p, 1)>>]
    ELSE
        [dataBlocks |-> <<DataBlock("T", p, 1), DataBlock("U", p, 2), DataBlock("T", p, 3)>>,
         doBlocks   |-> <<DoBlock("y", p, 1), DoBlock("x", p, 2)>>,
         routeLines |-> <<RouteLine("GET", "/a", p, 1), RouteLine("POST", "/a", p, 2),
                          RouteLine("GET", "/a", p, 3)>>,
         migrations |-> <<Migration("1", p, 1)>>]

\* import statements of the whole file system, grouped by importing file
EdgeLists ==
    UNION { { e \in [1..n -> Paths \X Paths] :
                \A i \in 1..(n - 1) : e[i][1] <= e[i + 1][1] } : n \in 0..MaxEdges }

RECURSIVE ImportsOf(_, _)
ImportsOf(e, p) ==
    IF e = <<>> THEN <<>>
    ELSE IF Head(e)[1] = p THEN <<[path |-> Head(e)[2]]>> \o ImportsOf(Tail(e), p)
    ELSE ImportsOf(Tail(e), p)

\* The file system with import statements e, declarations rotated by v, and
\* file b (when b is a path) missing or unparseable.
FileSystem(e, v, b, kind) ==
    [p \in Paths |->
        IF p = b THEN [status |-> kind, ast |-> EmptyAST]
        ELSE [status |-> "ok",
              ast |-> [dataBlocks |-> DeclsOf(p, v).dataBlocks,
                       doBlocks   |-> DeclsOf(p, v).doBlocks,
                       routeLines |-> DeclsOf(p, v).routeLines,
                       migrations |-> DeclsOf(p, v).migrations,
                       imports    |-> ImportsOf(e, p)]]]

\* ------------------------------------------------------------------ resolver
\* resolvePath: import paths are written as normalized absolute paths
resolvePath(importPath, fromFile) == importPath

ResolvedHas(p) == \E i \in DOMAIN resolvedASTs : resolvedASTs[i].path = p

CircularError(p) == [kind |-> "circular", names |-> {p}]
NotFoundError(p) == [kind |-> "notfound", names |-> {p}]
ParseFailure(p) == [kind |-> "parse", names |-> {}]

\* LoadModule with the resolved test placed before the loading test
LoadModule_ResolvedFirst(q, stk) ==
    IF ResolvedHas(q) THEN
        /\ rpc' = "loading"
        /\ stack' = stk
        /\ UNCHANGED <<loading, resolvedASTs, reads, rerr>>
    ELSE IF q \in loading THEN
        /\ rerr' = CircularError(q)
        /\ rpc' = "throwing"
        /\ stack' = stk
        /\ UNCHANGED <<loading, resolvedASTs, reads>>
    ELSE IF fsys[q].status = "missing" THEN
        /\ rerr' = NotFoundError(q)
        /\ rpc' = "throwing"
        /\ stack' = stk
        /\ UNCHANGED <<loading, resolvedASTs, reads>>
    ELSE IF fsys[q].status = "bad" THEN
        /\ loading' = loading \cup {q}
        /\ reads' = [reads EXCEPT ![q] = @ + 1]
        /\ rerr' = ParseFailure(q)
        /\ rpc' = "throwing"
        /\ stack' = Append(stk, [path |-> q, idx |-> 1])
        /\ UNCHANGED resolvedASTs
    ELSE
        /\ loading' = loading \cup {q}
        /\ reads' = [reads EXCEPT ![q] = @ + 1]
        /\ resolvedASTs' = Append(resolvedASTs, [path |-> q, ast |-> fsys[q].ast])
        /\ rpc' = "loading"
        /\ stack' = Append(stk, [path |-> q, idx |-> 1])
        /\ UNCHANGED rerr

\* loadModule(q) up to its first recursive call, from the frames stk: the
\* guards of lines 36-42, then loading.add, read, parse and resolvedASTs.set.
LoadModule(q, stk) ==
    IF q \in loading THEN
        /\ rerr' = CircularError(q)
        /\ rpc' = "throwing"
        /\ stack' = stk
        /\ UNCHANGED <<loading, resolvedASTs, reads>>
    ELSE IF ResolvedHas(q) THEN
        /\ rpc' = "loading"
        /\ stack' = stk
        /\ UNCHANGED <<loading, resolvedASTs, reads, rerr>>
    ELSE IF fsys[q].status = "missing" THEN
        /\ rerr' = NotFoundError(q)
        /\ rpc' = "throwing"
        /\ stack' = stk
        /\ UNCHANGED <<loading, resolvedASTs, reads>>
    ELSE IF fsys[q].status = "bad" THEN
        /\ loading' = loading \cup {q}
        /\ reads' = [reads EXCEPT ![q] = @ + 1]
        /\ rerr' = ParseFailure(q)
        /\ rpc' = "throwing"
        /\ stack' = Append(stk, [path |-> q, idx |-> 1])
        /\ UNCHANGED resolvedASTs
    ELSE
        /\ loading' = loading \cup {q}
        /\ reads' = [reads EXCEPT ![q] = @ + 1]
        /\ resolvedASTs' = Append(resolvedASTs, [path |-> q, ast |-> fsys[q].ast])
        /\ rpc' = "loading"
        /\ stack' = Append(stk, [path |-> q, idx |-> 1])
        /\ UNCHANGED rerr

Top == stack[Len(stack)]
TopAST == fsys[Top.path].ast

\* resolveModules is called: loadModule(entryPath)
ResolveStart ==
    /\ rpc = "idle"
    /\ LoadModule(Entry, <<>>)
    /\ UNCHANGED <<fsys, mergedAST>>
    /\ UNCHANGED notResolver

\* for (const imp of ast.imports) loadModule(resolvePath(imp.path, ...))
ImportNext ==
    /\ rpc = "loading"
    /\ stack # <<>>
    /\ Top.idx <= Len(TopAST.imports)
    /\ LoadModule(resolvePath(TopAST.imports[Top.idx].path, Top.path),
                  [stack EXCEPT ![Len(stack)].idx = @ + 1])
    /\ UNCHANGED <<fsys, mergedAST>>
    /\ UNCHANGED notResolver

\* the import loop of the innermost loadModule is over: finally, return
ModuleReturn ==
    /\ rpc = "loading"
    /\ stack # <<>>
    /\ Top.idx > Len(TopAST.imports)
    /\ loading' = loading \ {Top.path}
    /\ stack' = SubSeq(stack, 1, Len(stack) - 1)
    /\ UNCHANGED <<fsys, resolvedASTs, rpc, rerr, mergedAST, reads>>
    /\ UNCHANGED notResolver

\* an Error propagates through a loadModule frame that has no finally clause
Unwind_NoFinally ==
    /\ rpc = "throwing"
    /\ stack # <<>>
    /\ stack' = SubSeq(stack, 1, Len(stack) - 1)
    /\ UNCHANGED <<fsys, loading, resolvedASTs, rpc, rerr, mergedAST, reads>>
    /\ UNCHANGED notResolver

\* an Error propagates through one loadModule frame: finally
Unwind ==
    /\ rpc = "throwing"
    /\ stack # <<>>
    /\ loading' = loading \ {Top.path}
    /\ stack' = SubSeq(stack, 1, Len(stack) - 1)
    /\ UNCHANGED <<fsys, resolvedASTs, rpc, rerr, mergedAST, reads>>
    /\ UNCHANGED notResolver

\* the Error leaves resolveModules
ResolveRaise ==
    /\ rpc = "throwing"
    /\ stack = <<>>
    /\ rpc' = "failed"
    /\ UNCHANGED <<fsys, loading, resolvedASTs, stack, rerr, mergedAST, reads>>
    /\ UNCHANGED notResolver

\* resolveModules is called again: loading and resolvedASTs are new objects
ResolveAgain ==
    /\ rpc \in {"done", "failed"}
    /\ rpc' = "idle"
    /\ loading' = {}
    /\ resolvedASTs' = <<>>
    /\ stack' = <<>>
    /\ rerr' = NoError
    /\ mergedAST' = EmptyAST
    /\ reads' = [p \in Paths |-> 0]
    /\ UNCHANGED fsys
    /\ UNCHANGED notResolver

RouteKey(r) == <<r.method, r.path>>
NameKey(b) == b.name

\* push each element of list whose key is not in seen yet, in order
KeyOf(kind, x) == IF kind = "route" THEN RouteKey(x) ELSE NameKey(x)

\* PushUnseen without the seen test: plain concatenation
PushUnseen_NoDedup(acc, list, kind) == acc \o list

\* PushUnseen where a later declaration replaces the one kept so far
RECURSIVE PushUnseen_LastWins(_, _, _)
PushUnseen_LastWins(acc, list, kind) ==
    IF list = <<>> THEN acc
    ELSE IF \E i \in DOMAIN acc : KeyOf(kind, acc[i]) = KeyOf(kind, Head(list))
         THEN PushUnseen_LastWins(
                 [i \in DOMAIN acc |->
                     IF KeyOf(kind, acc[i]) = KeyOf(kind, Head(list)) THEN Head(list)
                     ELSE acc[i]],
                 Tail(list), kind)
         ELSE PushUnseen_LastWins(Append(acc, Head(list)), Tail(list), kind)

RECURSIVE PushUnseen(_, _, _)
PushUnseen(acc, list, kind) ==
    IF list = <<>> THEN acc
    ELSE IF \E i \in DOMAIN acc : KeyOf(kind, acc[i]) = KeyOf(kind, Head(list))
         THEN PushUnseen(acc, Tail(list), kind)
         ELSE PushUnseen(Append(acc, Head(list)), Tail(list), kind)

\* the merge loop over resolvedASTs.values(), lines 62-83
RECURSIVE MergeFrom(_, _)
MergeFrom(m, asts) ==
    IF asts = <<>> THEN m
    ELSE LET a == Head(asts).ast IN
         MergeFrom([dataBlocks |-> PushUnseen(m.dataBlocks, a.dataBlocks, "data"),
                    doBlocks   |-> PushUnseen(m.doBlocks, a.doBlocks, "do"),
                    routeLines |-> PushUnseen(m.routeLines, a.routeLines, "route"),
                    migrations |-> m.migrations \o a.migrations,
                    imports    |-> <<>>],
                   Tail(asts))

Merge ==
    /\ rpc = "loading"
    /\ stack = <<>>
    /\ mergedAST' = MergeFrom(EmptyAST, resolvedASTs)
    /\ rpc' = "done"
    /\ UNCHANGED <<fsys, loading, resolvedASTs, stack, rerr, reads>>
    /\ UNCHANGED notResolver

\* ------------------------------------------------------------------ source text
\* A source is a sequence of one-character strings; offsets are 0-based as in
\* the code, and reading past the end yields undefined.
Undefined == "undefined"
CharAt(s, i) == IF i >= 0 /\ i < Len(s) THEN s[i + 1] ELSE Undefined

\* String.prototype.slice(a, b) for 0 <= a
Slice(s, a, b) == IF b <= a THEN <<>> ELSE SubSeq(s, a + 1, IF b > Len(s) THEN Len(s) ELSE b)

IsSpace(c) == c \in {" ", "\n"}

RECURSIVE TrimStart(_)
TrimStart(s) == IF s # <<>> /\ IsSpace(Head(s)) THEN TrimStart(Tail(s)) ELSE s
RECURSIVE TrimEnd(_)
TrimEnd(s) == IF s # <<>> /\ IsSpace(s[Len(s)]) THEN TrimEnd(SubSeq(s, 1, Len(s) - 1)) ELSE s
\* String.prototype.trim
Trim(s) == TrimEnd(TrimStart(s))

\* the back quote U+0060, which a TLA+ string cannot hold
BackQuote == "BQ"

QuoteChars == {"\"", "'", BackQuote}

\* ------------------------------------------------------------------ source-utils
\* the while loop of locateBraceInSource from offset i on line currentLine
RECURSIVE LocateScan(_, _, _, _)
LocateScan(s, line, currentLine, i) ==
    IF ~(i < Len(s)) THEN [err |-> "Line not found"]
    ELSE IF currentLine = line THEN
        LET RECURSIVE Brace(_)
            Brace(j) == IF j < Len(s) /\ CharAt(s, j) # "{" THEN Brace(j + 1) ELSE j
        IN [err |-> "none", offset |-> Brace(i)]
    ELSE LocateScan(s, line, IF CharAt(s, i) = "\n" THEN currentLine + 1 ELSE currentLine,
                    i + 1)

locateBraceInSource(s, line) == LocateScan(s, line, 1, 0)

\* the inner while loop of extractRawBlock: from offset i inside a region
\* quoted by q to the offset after its closing quote, or the end
RECURSIVE QuoteScan(_, _, _)
QuoteScan(s, q, i) ==
    IF ~(i < Len(s)) THEN i
    ELSE IF CharAt(s, i) = "\\" THEN QuoteScan(s, q, i + 2)
    ELSE IF CharAt(s, i) = q THEN i + 1
    ELSE QuoteScan(s, q, i + 1)

\* BlockScan that counts braces inside quoted regions too
RECURSIVE BlockScan_NoQuotes(_, _, _)
BlockScan_NoQuotes(s, i, depth) ==
    IF ~(i < Len(s) /\ depth > 0) THEN [i |-> i, depth |-> depth]
    ELSE LET c == CharAt(s, i) IN
         BlockScan_NoQuotes(s, i + 1, IF c = "{" THEN depth + 1
                                      ELSE IF c = "}" THEN depth - 1 ELSE depth)

\* BlockScan that does not stop when the depth returns to zero
RECURSIVE BlockScan_ToEnd(_, _, _)
BlockScan_ToEnd(s, i, depth) ==
    IF ~(i < Len(s)) THEN [i |-> i, depth |-> depth]
    ELSE LET c == CharAt(s, i) IN
         IF c \in QuoteChars THEN BlockScan_ToEnd(s, QuoteScan(s, c, i + 1), depth)
         ELSE BlockScan_ToEnd(s, i + 1, IF c = "{" THEN depth + 1
                                        ELSE IF c = "}" THEN depth - 1 ELSE depth)

\* the outer while loop of extractRawBlock
RECURSIVE BlockScan(_, _, _)
BlockScan(s, i, depth) ==
    IF ~(i < Len(s) /\ depth > 0) THEN [i |-> i, depth |-> depth]
    ELSE LET c == CharAt(s, i) IN
         IF c \in QuoteChars THEN BlockScan(s, QuoteScan(s, c, i + 1), depth)
         ELSE BlockScan(s, i + 1, IF c = "{" THEN depth + 1
                                  ELSE IF c = "}" THEN depth - 1 ELSE depth)

extractRawBlock(s, openBraceIndex) ==
    LET r == BlockScan(s, openBraceIndex + 1, 1) IN
    IF r.depth # 0 THEN [err |-> "Unbalanced braces"]
    ELSE [err |-> "none",
          body |-> Trim(Slice(s, openBraceIndex + 1, r.i - 1)),
          endIndex |-> r.i]

\* a call of extractRawBlock at an opening brace of the source
ExtractRawBlock ==
    /\ \E o \in 0..(Len(src) - 1) :
          /\ CharAt(src, o) = "{"
          /\ sop' = "extract"
          /\ sarg' = o
          /\ sres' = extractRawBlock(src, o)
    /\ UNCHANGED src
    /\ UNCHANGED notSource

\* a call of locateBraceInSource
LocateBraceInSource ==
    /\ \E line \in 1..MaxLine :
          /\ sop' = "locate"
          /\ sarg' = line
          /\ sres' = locateBraceInSource(src, line)
    /\ UNCHANGED src
    /\ UNCHANGED notSource

\* the characters of the texts
BodyChars == {"{", "}", "\"", "'", BackQuote, "\\", " ", "a"}
LocChars == {"{", "\n", "a"}
StringsOver(A, n) == UNION {[1..k -> A] : k \in 0..n}

ExtractSources == {<<"{">> \o b : b \in StringsOver(BodyChars, MaxBodyLen)}
LocateSources == StringsOver(LocChars, MaxLocLen)

\* ------------------------------------------------------------------ lexer
Letters == {"a", "b", "c", "d", "e", "f", "g", "h", "i", "j", "k", "l", "m", "n", "o",
            "p", "q", "r", "s", "t", "u", "v", "w", "x", "y", "z",
            "A", "B", "C", "D", "E", "F", "G", "H", "I", "J", "K", "L", "M", "N", "O",
            "P", "Q", "R", "S", "T", "U", "V", "W", "X", "Y", "Z", "_"}
Digits == {"0", "1", "2", "3", "4", "5", "6", "7", "8", "9"}

KEYWORDS == {<<"d", "a", "t", "a">>, <<"d", "o">>, <<"r", "o", "u", "t", "e">>,
             <<"m", "i", "g", "r", "a", "t", "i", "o", "n">>,
             <<"i", "m", "p", "o", "r", "t">>}
HTTP_METHODS == {<<"G", "E", "T">>, <<"P", "O", "S", "T">>, <<"P", "U", "T">>,
                 <<"D", "E", "L", "E", "T", "E">>, <<"P", "A", "T", "C", "H">>}

\* the singles table
SingleType(c) ==
    CASE c = "{" -> "LBRACE" [] c = "}" -> "RBRACE"
      [] c = "(" -> "LPAREN" [] c = ")" -> "RPAREN"
      [] c = "[" -> "LBRACKET" [] c = "]" -> "RBRACKET"
      [] c = "," -> "COMMA" [] c = ":" -> "COLON"
      [] c = "|" -> "PIPE" [] c = "?" -> "QUESTION"
      [] OTHER -> "none"

LexStart == [i |-> 0, line |-> 1, column |-> 1, tokens |-> <<>>]

Peek(s, st, o) == CharAt(s, st.i + o)

\* advance(): the lexer state after it
Advance(s, st) ==
    IF Peek(s, st, 0) = "\n"
    THEN [st EXCEPT !.i = @ + 1, !.line = @ + 1, !.column = 1]
    ELSE [st EXCEPT !.i = @ + 1, !.column = @ + 1]

\* add(type, value)
Add(st, type, value) ==
    [st EXCEPT !.tokens = Append(@, [type |-> type, value |-> value,
                                      line |-> st.line, column |-> st.column])]

\* while (i < source.length && peek() !== '\n') advance()
RECURSIVE LineCommentLoop(_, _)
LineCommentLoop(s, st) ==
    IF st.i < Len(s) /\ Peek(s, st, 0) # "\n" THEN LineCommentLoop(s, Advance(s, st)) ELSE st

\* while (i < source.length && !(peek() === '*' && peek(1) === '/')) advance()
RECURSIVE BlockCommentLoop(_, _)
BlockCommentLoop(s, st) ==
    IF st.i < Len(s) /\ ~(Peek(s, st, 0) = "*" /\ Peek(s, st, 1) = "/")
    THEN BlockCommentLoop(s, Advance(s, st)) ELSE st

\* the string loop: [st, s] after it; a backslash takes the next character
RECURSIVE StringLoop(_, _, _)
StringLoop(s, st, acc) ==
    IF st.i < Len(s) /\ Peek(s, st, 0) # "\""
    THEN IF Peek(s, st, 0) = "\\"
         THEN LET st1 == Advance(s, st) IN
              StringLoop(s, Advance(s, st1), Append(acc, Peek(s, st1, 0)))
         ELSE StringLoop(s, Advance(s, st), Append(acc, Peek(s, st, 0)))
    ELSE [st |-> st, s |-> acc]

\* while (i < source.length && /[\w]/.test(peek())) word += advance()
RECURSIVE WordLoop(_, _, _)
WordLoop(s, st, word) ==
    IF st.i < Len(s) /\ Peek(s, st, 0) \in Letters \cup Digits
    THEN WordLoop(s, Advance(s, st), Append(word, Peek(s, st, 0)))
    ELSE [st |-> st, s |-> word]

\* while (i < source.length && /[\d.]/.test(peek())) n += advance()
RECURSIVE NumberLoop(_, _, _)
NumberLoop(s, st, n) ==
    IF st.i < Len(s) /\ Peek(s, st, 0) \in Digits \cup {"."}
    THEN NumberLoop(s, Advance(s, st), Append(n, Peek(s, st, 0)))
    ELSE [st |-> st, s |-> n]

\* which branch one iteration of the scanning loop takes at st
LexBranch(s, st) ==
    LET c == Peek(s, st, 0) IN
    IF IsSpace(c) THEN "space"
    ELSE IF c = "/" /\ Peek(s, st, 1) = "/" THEN "lineComment"
    ELSE IF c = "/" /\ Peek(s, st, 1) = "*" THEN "blockComment"
    ELSE IF c = "=" /\ Peek(s, st, 1) = ">" THEN "fatArrow"
    ELSE IF SingleType(c) # "none" THEN "single"
    ELSE IF c = "\"" THEN "string"
    ELSE IF c \in Letters THEN "word"
    ELSE IF c \in Digits THEN "number"
    ELSE "skip"

\* LexIter that emits a token for a character it does not recognize
LexIter_TokenForUnknown(s, st) ==
    IF LexBranch(s, st) = "skip" THEN Add(Advance(s, st), "IDENT", <<Peek(s, st, 0)>>)
    ELSE IF LexBranch(s, st) = "space" THEN Advance(s, st)
    ELSE Add(Advance(s, st), "IDENT", <<Peek(s, st, 0)>>)

\* one iteration of the scanning loop
LexIter(s, st) ==
    LET b == LexBranch(s, st) IN
    CASE b = "space" -> Advance(s, st)
      [] b = "lineComment" -> LineCommentLoop(s, st)
      [] b = "blockComment" ->
            Advance(s, Advance(s, BlockCommentLoop(s, Advance(s, Advance(s, st)))))
      [] b = "fatArrow" -> Add(Advance(s, Advance(s, st)), "FAT_ARROW", <<"=", ">">>)
      [] b = "single" -> Add(Advance(s, st), SingleType(Peek(s, st, 0)), <<Peek(s, st, 0)>>)
      [] b = "string" ->
            LET r == StringLoop(s, Advance(s, st), <<>>) IN
            Add(IF r.st.i < Len(s) THEN Advance(s, r.st) ELSE r.st, "STRING", r.s)
      [] b = "word" ->
            LET r == WordLoop(s, st, <<>>) IN
            Add(r.st, IF r.s \in KEYWORDS THEN "KEYWORD"
                      ELSE IF r.s \in HTTP_METHODS THEN "HTTP_METHOD" ELSE "IDENT", r.s)
      [] b = "number" ->
            LET r == NumberLoop(s, st, <<>>) IN Add(r.st, "IDENT", r.s)
      [] OTHER -> Advance(s, st)

\* the value null of the EOF token
Null == <<"null">>

RECURSIVE LexLoop(_, _)
LexLoop(s, st) == IF st.i < Len(s) THEN LexLoop(s, LexIter(s, st)) ELSE st

\* lex(source)
lex(s) == Add(LexLoop(s, LexStart), "EOF", Null).tokens

\* one iteration of the scanning loop taking branch b
LexStep(b) ==
    /\ lpc = "scan"
    /\ lx.i < Len(src)
    /\ LexBranch(src, lx) = b
    /\ lx' = LexIter(src, lx)
    /\ UNCHANGED <<lpc, src>>
    /\ UNCHANGED notLexer

LexSpace == LexStep("space")
LexLineComment == LexStep("lineComment")
LexBlockComment == LexStep("blockComment")
LexFatArrow == LexStep("fatArrow")
LexSingle == LexStep("single")
LexString == LexStep("string")
LexWord == LexStep("word")
LexNumber == LexStep("number")
LexSkip == LexStep("skip")

\* the scanning loop is over: add(TT.EOF, null); return tokens
LexReturn ==
    /\ lpc = "scan"
    /\ ~(lx.i < Len(src))
    /\ lx' = Add(lx, "EOF", Null)
    /\ lpc' = "done"
    /\ UNCHANGED src
    /\ UNCHANGED notLexer

LexChars == {" ", "\n", "/", "*", "=", ">", "{", "\"", "\\", "d", "o", "1", "."}
\* longer texts: closed comments, escapes, keywords
LexSamples ==
    {<<"/", "*", "*", "/", "d">>,
     <<"/", "*", " ", "*", "/">>,
     <<"/", "/", "d", "\n", "1">>,
     <<"\"", "\\", "\"", "\"">>,
     <<"\"", "d", "\\">>,
     <<"d", "o", " ", "d">>,
     <<"G", "E", "T">>,
     <<"d", "1", "_", "d">>,
     <<"1", ".", "5", ".">>,
     <<"=", ">", ">">>,
     <<"/", "*", "/", "d", "*", "/">>}
LexSources == StringsOver(LexChars, MaxLexLen) \cup LexSamples

\* ------------------------------------------------------------------ parser
NoTok == [type |-> "undefined", value |-> <<>>, line |-> 0, column |-> 0]

\* tokens[p]
TokAt(toks, p) == IF p >= 0 /\ p < Len(toks) THEN toks[p + 1] ELSE NoTok

check(toks, p, type) == TokAt(toks, p).type = type
checkValue(toks, p, type, value) == check(toks, p, type) /\ TokAt(toks, p).value = value

\* F(e), with e computed once however often F uses it
Once(e, F(_)) == CHOOSE r \in {F(q) : q \in {e}} : TRUE

NoPErr == [kind |-> "none"]
PStart(p) == [pos |-> p, err |-> NoPErr, skipped |-> <<>>]
Failed(ps) == ps.err.kind # "none"

\* consume(type): the Error names the line of the offending token only
Expect(toks, ps, type) ==
    IF Failed(ps) THEN ps
    ELSE LET t == TokAt(toks, ps.pos) IN
         IF t = NoTok THEN [ps EXCEPT !.err = [kind |-> "Unexpected end of file"]]
         ELSE IF t.type # type
              THEN [ps EXCEPT !.err = [kind |-> "expected", line |-> t.line,
                                       expected |-> type, got |-> t.type]]
              ELSE [ps EXCEPT !.pos = @ + 1]

consume(toks, ps, type) == Once(ps, LAMBDA q : Expect(toks, q, type))

\* the value of the token at the cursor
Val(toks, ps) == TokAt(toks, ps.pos).value

\* a bare pos++ inside the construct named where
Passed(toks, ps, where) ==
    [ps EXCEPT !.pos = @ + 1,
               !.skipped = Append(@, [in |-> where, type |-> TokAt(toks, ps.pos).type])]

PosInc(toks, ps, where) == Once(ps, LAMBDA q : Passed(toks, q, where))

KwImport == <<"i", "m", "p", "o", "r", "t">>
KwData == <<"d", "a", "t", "a">>
KwDo == <<"d", "o">>
KwRoute == <<"r", "o", "u", "t", "e">>
KwMigration == <<"m", "i", "g", "r", "a", "t", "i", "o", "n">>
WValidate == <<"v", "a", "l", "i", "d", "a", "t", "e">>
WAuth == <<"a", "u", "t", "h">>
WEnum == <<"e", "n", "u", "m">>
WAddColumn == <<"a", "d", "d", "C", "o", "l", "u", "m", "n">>
WDropColumn == <<"d", "r", "o", "p", "C", "o", "l", "u", "m", "n">>
WCreateTable == <<"c", "r", "e", "a", "t", "e", "T", "a", "b", "l", "e">>
WDropTable == <<"d", "r", "o", "p", "T", "a", "b", "l", "e">>
WInfinity == <<"I", "n", "f", "i", "n", "i", "t", "y">>

\* isNaN(Number(v)) ? v : Number(v) for the text of an IDENT token
IsNumeric(v) ==
    \/ v = WInfinity
    \/ /\ \A k \in DOMAIN v : v[k] \in Digits \cup {"."}
       /\ Cardinality({k \in DOMAIN v : v[k] = "."}) <= 1
IsZero(v) == IsNumeric(v) /\ \A k \in DOMAIN v : v[k] \in {"0", "."}
Coerce(v) == [num |-> IsNumeric(v), text |-> v]

SetArg(args, k, v) == [x \in DOMAIN args \cup {k} |-> IF x = k THEN v ELSE args[x]]

\* the type-argument loop of a data field; st = [ps, args]
RECURSIVE TypeArgsLoop(_, _)
TypeArgsLoopBody(toks, st) ==
    IF Failed(st.ps) \/ check(toks, st.ps.pos, "RPAREN") \/ check(toks, st.ps.pos, "EOF")
    THEN st
    ELSE IF check(toks, st.ps.pos, "PIPE") \/ check(toks, st.ps.pos, "COMMA")
    THEN TypeArgsLoop(toks, [st EXCEPT !.ps = consume(toks, @, TokAt(toks, @.pos).type)])
    ELSE LET k == Val(toks, st.ps)
             p1 == consume(toks, st.ps, "IDENT")
         IN
         IF Failed(p1) THEN [st EXCEPT !.ps = p1]
         ELSE IF check(toks, p1.pos, "COLON")
         THEN LET p2 == consume(toks, p1, "COLON")
                  v == Val(toks, p2)
                  p3 == consume(toks, p2, "IDENT")
              IN IF Failed(p3) THEN [st EXCEPT !.ps = p3]
                 ELSE TypeArgsLoop(toks, [ps |-> p3, args |-> SetArg(st.args, k, Coerce(v))])
         ELSE IF WEnum \in DOMAIN st.args /\ "list" \notin DOMAIN st.args[WEnum]
                 /\ ~IsZero(st.args[WEnum].text)
         THEN [st EXCEPT !.ps = [p1 EXCEPT !.err = [kind |-> "TypeError"]]]
         ELSE LET old == IF WEnum \in DOMAIN st.args /\ "list" \in DOMAIN st.args[WEnum]
                         THEN st.args[WEnum].list ELSE <<>>
              IN TypeArgsLoop(toks, [ps |-> p1,
                                     args |-> SetArg(st.args, WEnum, [list |-> Append(old, k)])])

TypeArgsLoop(toks, st) == Once(st, LAMBDA q : TypeArgsLoopBody(toks, q))

\* the field loop of a data block; st = [ps, fields]
RECURSIVE FieldLoop(_, _)
FieldLoopBody(toks, st) ==
    IF Failed(st.ps) \/ check(toks, st.ps.pos, "RBRACE") \/ check(toks, st.ps.pos, "EOF")
    THEN st
    ELSE IF check(toks, st.ps.pos, "COMMA")
    THEN FieldLoop(toks, [st EXCEPT !.ps = consume(toks, @, "COMMA")])
    ELSE LET fieldName == Val(toks, st.ps)
             p1 == consume(toks, st.ps, "IDENT")
             p2 == consume(toks, p1, "COLON")
             typeName == Val(toks, p2)
             p3 == consume(toks, p2, "IDENT")
             ta == IF ~Failed(p3) /\ check(toks, p3.pos, "LPAREN")
                   THEN LET l == TypeArgsLoop(toks, [ps |-> consume(toks, p3, "LPAREN"),
                                                     args |-> <<>>])
                        IN [ps |-> consume(toks, l.ps, "RPAREN"), args |-> l.args]
                   ELSE [ps |-> p3, args |-> <<>>]
             optional == ~Failed(ta.ps) /\ check(toks, ta.ps.pos, "QUESTION")
             p4 == IF optional THEN consume(toks, ta.ps, "QUESTION") ELSE ta.ps
         IN IF Failed(p4) THEN [st EXCEPT !.ps = p4]
            ELSE FieldLoop(toks, [ps |-> p4,
                                  fields |-> Append(st.fields,
                                      [name |-> fieldName, type |-> typeName,
                                       optional |-> optional, args |-> ta.args])])

FieldLoop(toks, st) == Once(st, LAMBDA q : FieldLoopBody(toks, q))

\* import "path"
ParseImportStmt(toks, ps0) ==
    LET p1 == consume(toks, ps0, "KEYWORD")
        p2 == consume(toks, p1, "STRING")
    IN [ps |-> p2, node |-> [path |-> Val(toks, p1)]]

\* data Name { fields }
ParseDataBlock(toks, ps0) ==
    LET p1 == consume(toks, ps0, "KEYWORD")
        p2 == consume(toks, p1, "IDENT")
        p3 == consume(toks, p2, "LBRACE")
        l == FieldLoop(toks, [ps |-> p3, fields |-> <<>>])
        p4 == consume(toks, l.ps, "RBRACE")
    IN [ps |-> p4, node |-> [name |-> Val(toks, p1), fields |-> l.fields]]

\* the parameter loop of a do block
RECURSIVE ParamLoop(_, _)
ParamLoop(toks, ps) ==
    IF Failed(ps) \/ check(toks, ps.pos, "RPAREN") \/ check(toks, ps.pos, "EOF") THEN ps
    ELSE IF check(toks, ps.pos, "COMMA") THEN ParamLoop(toks, consume(toks, ps, "COMMA"))
    ELSE ParamLoop(toks, PosInc(toks, ps, "doParams"))

\* the token-level brace depth loop that passes over a do body
RECURSIVE DepthLoop(_, _, _)
DepthLoop(toks, ps, depth) ==
    IF ~(ps.pos < Len(toks) /\ depth > 0) THEN ps
    ELSE IF check(toks, ps.pos, "LBRACE")
    THEN DepthLoop(toks, [ps EXCEPT !.pos = @ + 1], depth + 1)
    ELSE IF check(toks, ps.pos, "RBRACE")
    THEN IF depth - 1 = 0 THEN consume(toks, ps, "RBRACE")
         ELSE DepthLoop(toks, [ps EXCEPT !.pos = @ + 1], depth - 1)
    ELSE DepthLoop(toks, [ps EXCEPT !.pos = @ + 1], depth)

\* do name ( params ) { body }
ParseDoBlock(s, toks, ps0) ==
    LET kw == TokAt(toks, ps0.pos)
        p1 == consume(toks, ps0, "KEYWORD")
        p2 == consume(toks, p1, "IDENT")
        p3 == consume(toks, p2, "LPAREN")
        p4 == ParamLoop(toks, p3)
        p5 == consume(toks, p4, "RPAREN")
    IN
    IF Failed(p5) THEN [ps |-> p5, node |-> <<>>]
    ELSE LET lbrace == TokAt(toks, p5.pos)
             loc == Once(lbrace.line, LAMBDA line : locateBraceInSource(s, line))
         IN
         IF loc.err # "none" THEN [ps |-> [p5 EXCEPT !.err = [kind |-> loc.err]], node |-> <<>>]
         ELSE LET p6 == consume(toks, p5, "LBRACE") IN
              IF Failed(p6) THEN [ps |-> p6, node |-> <<>>]
              ELSE LET raw == Once(loc.offset, LAMBDA o : extractRawBlock(s, o)) IN
                   IF raw.err # "none"
                   THEN [ps |-> [p6 EXCEPT !.err = [kind |-> raw.err]], node |-> <<>>]
                   ELSE [ps |-> DepthLoop(toks, p6, 1),
                         node |-> [name |-> Val(toks, p1), body |-> raw.body,
                                   line |-> kw.line],
                         lbrace |-> lbrace, endIndex |-> raw.endIndex]

\* the step loop of one route line; st = [ps, pipeline]
RECURSIVE PipelineLoop(_, _, _)
PipelineLoopBody(toks, st, inBracket) ==
    IF \/ Failed(st.ps)
       \/ check(toks, st.ps.pos, "EOF")
       \/ check(toks, st.ps.pos, "HTTP_METHOD")
       \/ check(toks, st.ps.pos, "RBRACE")
       \/ (inBracket /\ check(toks, st.ps.pos, "RBRACKET"))
    THEN st
    ELSE IF check(toks, st.ps.pos, "COMMA")
    THEN PipelineLoop(toks, [st EXCEPT !.ps = consume(toks, @, "COMMA")], inBracket)
    ELSE LET ident == Val(toks, st.ps)
             p1 == consume(toks, st.ps, "IDENT")
         IN
         IF Failed(p1) THEN [st EXCEPT !.ps = p1]
         ELSE IF ident = WValidate /\ check(toks, p1.pos, "LPAREN")
         THEN LET p2 == consume(toks, p1, "LPAREN")
                  p3 == consume(toks, p2, "IDENT")
                  p4 == consume(toks, p3, "RPAREN")
              IN IF Failed(p4) THEN [st EXCEPT !.ps = p4]
                 ELSE PipelineLoop(toks,
                          [ps |-> p4,
                           pipeline |-> Append(st.pipeline,
                               [kind |-> "validate", schema |-> Val(toks, p2)])],
                          inBracket)
         ELSE IF ident = WAuth
         THEN PipelineLoop(toks, [ps |-> p1,
                                  pipeline |-> Append(st.pipeline, [kind |-> "auth"])],
                           inBracket)
         ELSE PipelineLoop(toks, [ps |-> p1,
                                  pipeline |-> Append(st.pipeline,
                                      [kind |-> "action", name |-> ident])],
                           inBracket)

PipelineLoop(toks, st, inBracket) == Once(st, LAMBDA q : PipelineLoopBody(toks, q, inBracket))

\* the entry loop of a route block; st = [ps, routes]
RECURSIVE RouteLoop(_, _)
RouteLoopBody(toks, st) ==
    IF Failed(st.ps) \/ check(toks, st.ps.pos, "RBRACE") \/ check(toks, st.ps.pos, "EOF")
    THEN st
    ELSE IF ~check(toks, st.ps.pos, "HTTP_METHOD")
    THEN RouteLoop(toks, [st EXCEPT !.ps = PosInc(toks, @, "route")])
    ELSE LET p1 == consume(toks, st.ps, "HTTP_METHOD")
             p2 == consume(toks, p1, "STRING")
             p3 == consume(toks, p2, "FAT_ARROW")
         IN
         IF Failed(p3) THEN [st EXCEPT !.ps = p3]
         ELSE LET p4 == IF check(toks, p3.pos, "LBRACKET")
                        THEN consume(toks, p3, "LBRACKET") ELSE p3
                  inBracket == TokAt(toks, p4.pos - 1).value = <<"[">>
                  l == PipelineLoop(toks, [ps |-> p4, pipeline |-> <<>>], inBracket)
                  p5 == IF ~Failed(l.ps) /\ inBracket /\ check(toks, l.ps.pos, "RBRACKET")
                        THEN consume(toks, l.ps, "RBRACKET") ELSE l.ps
              IN IF Failed(p5) THEN [st EXCEPT !.ps = p5]
                 ELSE RouteLoop(toks, [ps |-> p5,
                                       routes |-> Append(st.routes,
                                           [method |-> Val(toks, st.ps),
                                            path |-> Val(toks, p1),
                                            pipeline |-> l.pipeline])])

RouteLoop(toks, st) == Once(st, LAMBDA q : RouteLoopBody(toks, q))

\* route { lines }
ParseRouteBlock(toks, ps0) ==
    LET p1 == consume(toks, ps0, "KEYWORD")
        p2 == consume(toks, p1, "LBRACE")
        l == RouteLoop(toks, [ps |-> p2, routes |-> <<>>])
        p3 == consume(toks, l.ps, "RBRACE")
    IN [ps |-> p3, node |-> l.routes]

\* the operation loop of a migration block; st = [ps, operations]
RECURSIVE OperationLoop(_, _)
OperationLoopBody(toks, st) ==
    IF Failed(st.ps) \/ check(toks, st.ps.pos, "RBRACE") \/ check(toks, st.ps.pos, "EOF")
    THEN st
    ELSE LET op == Val(toks, st.ps)
             p1 == consume(toks, st.ps, "IDENT")
             p2 == consume(toks, p1, "STRING")
             table == Val(toks, p1)
         IN
         IF Failed(p2) THEN [st EXCEPT !.ps = p2]
         ELSE IF op = WAddColumn
         THEN LET p3 == consume(toks, p2, "IDENT")
                  p4 == consume(toks, p3, "IDENT")
              IN IF Failed(p4) THEN [st EXCEPT !.ps = p4]
                 ELSE OperationLoop(toks,
                          [ps |-> p4,
                           operations |-> Append(st.operations,
                               [op |-> op, table |-> table, column |-> Val(toks, p2),
                                type |-> Val(toks, p3)])])
         ELSE IF op = WDropColumn
         THEN LET p3 == consume(toks, p2, "IDENT")
              IN IF Failed(p3) THEN [st EXCEPT !.ps = p3]
                 ELSE OperationLoop(toks,
                          [ps |-> p3,
                           operations |-> Append(st.operations,
                               [op |-> op, table |-> table, column |-> Val(toks, p2)])])
         ELSE OperationLoop(toks,
                  [ps |-> p2,
                   operations |-> Append(st.operations, [op |-> op, table |-> table])])

OperationLoop(toks, st) == Once(st, LAMBDA q : OperationLoopBody(toks, q))

\* migration "version" { operations }
ParseMigrationBlock(toks, ps0) ==
    LET p1 == consume(toks, ps0, "KEYWORD")
        p2 == consume(toks, p1, "STRING")
        p3 == consume(toks, p2, "LBRACE")
        l == OperationLoop(toks, [ps |-> p3, operations |-> <<>>])
        p4 == consume(toks, l.ps, "RBRACE")
    IN [ps |-> p4, node |-> [version |-> Val(toks, p1), operations |-> l.operations]]

\* the texts given to parse: up to MaxDecls declarations, one per line, and
\* a do block with every body over DoBodyChars followed by a data block
Decls ==
    {<<"i", "m", "p", "o", "r", "t", " ", "\"", ".", "/", "b", "\"">>,
     <<"i", "m", "p", "o", "r", "t", " ", "b">>,
     <<"i", "m", "p", "o", "r", "t", " ", "\"", ".", "/", "b">>,
     <<"d", "a", "t", "a", " ", "U", "{", "n", ":", "S", "(", "m", "i", "n", ":", "3", ",", "m", "a", "x", ":", "9", ")", "?", ",", "r", ":", "E", "(", "a", "|", "b", ")", "}">>,
     <<"d", "a", "t", "a", " ", "U", "{", "n", " ", "S", "}">>,
     <<"d", "o", " ", "f", "(", "a", ",", "b", ")", "{", "x", "}">>,
     <<"d", "o", " ", "f", "(", "a", ":", "1", ")", "{", "x", "}">>,
     <<"r", "o", "u", "t", "e", "{", "G", "E", "T", " ", "\"", "/", "a", "\"", "=", ">", "a", "u", "t", "h", ",", "v", "a", "l", "i", "d", "a", "t", "e", "(", "U", ")", ",", "f", " ", "P", "O", "S", "T", " ", "\"", "/", "a", "\"", "=", ">", "[", "f", ",", "g", "]", "}">>,
     <<"r", "o", "u", "t", "e", "{", "f", " ", "G", "E", "T", " ", "\"", "/", "a", "\"", "=", ">", "f", "}">>,
     <<"r", "o", "u", "t", "e", "{", "G", "E", "T", " ", "\"", "/", "a", "\"", "=", ">", "(", "}">>,
     <<"m", "i", "g", "r", "a", "t", "i", "o", "n", " ", "\"", "1", "\"", "{", "a", "d", "d", "C", "o", "l", "u", "m", "n", " ", "\"", "t", "\"", " ", "c", " ", "T", " ", "d", "r", "o", "p", "C", "o", "l", "u", "m", "n", " ", "\"", "t", "\"", " ", "c", " ", "c", "r", "e", "a", "t", "e", "T", "a", "b", "l", "e", " ", "\"", "t", "\"", "}">>,
     <<"m", "i", "g", "r", "a", "t", "i", "o", "n", " ", "\"", "1", "\"", "{", "f", "r", "o", "b", " ", "\"", "t", "\"", "}">>,
     <<"m", "i", "g", "r", "a", "t", "i", "o", "n", " ", "\"", "1", "\"", "{", "a", "d", "d", "C", "o", "l", "u", "m", "n", " ", "t", "}">>,
     <<"x">>}

RECURSIVE DeclTexts(_)
DeclTexts(n) ==
    IF n = 0 THEN {<<>>}
    ELSE DeclTexts(n - 1) \cup {t \o <<"\n">> \o d : t \in DeclTexts(n - 1) \ {<<>>}, d \in Decls}
         \cup Decls

DoBodyChars == {"{", "}", "'", "\"", "x", " "}
DoTexts ==
    {<<"d", "o", " ", "f", "(", ")", "{">> \o b \o <<"}">> \o t :
        b \in StringsOver(DoBodyChars, MaxDoBody), t \in {<<>>, <<"\n", "d", "a", "t", "a", " ", "U", "{", "}">>}}

\* texts with a brace before a do block's own brace on the same line
SameLineTexts ==
    {<<"d", "a", "t", "a", " ", "U", "{", "}", " ", "d", "o", " ", "f", "(", ")", "{", "x", "}">>,
     <<"d", "o", " ", "f", "(", ")", "{", "x", "}", " ", "d", "o", " ", "g", "(", ")", "{", "y", "}">>,
     <<"d", "o", " ", "f", "(", "a", "{", "}", ")", "{", "x", "}">>,
     <<"d", "o", " ", "f", "(", ")", "{", "x", "}", "\n", "d", "o", " ", "g", "(", ")", "{", "y", "}">>}

ParseSources == DeclTexts(MaxDecls) \cup DoTexts \cup SameLineTexts

\* All cursor values past the token list read undefined alike: a cursor
\* that runs on past the list is kept within two places of its end.
PastEnd(p) == IF p > Len(tokens) + 1 THEN Len(tokens) ELSE p

\* parse(source): const tokens = lex(source); let pos = 0
ParseStart ==
    /\ ppc = "start"
    /\ \E s \in ParseSources :
          /\ src' = s
          /\ tokens' = lex(s)
    /\ pos' = 0
    /\ ppc' = "top"
    /\ UNCHANGED <<ast, perr, skipped>>
    /\ UNCHANGED notParser

\* one iteration of the top-level loop that parses a construct: r = [ps, node]
\* is what the construct's code yields, list the tree's list it is pushed to
TopLevel(word, r, list) ==
    /\ ppc = "top"
    /\ ~check(tokens, pos, "EOF")
    /\ checkValue(tokens, pos, "KEYWORD", word)
    /\ \E res \in {r} :
          /\ skipped' = skipped \o res.ps.skipped
          /\ IF Failed(res.ps)
             THEN /\ ppc' = "error"
                  /\ perr' = res.ps.err
                  /\ UNCHANGED <<ast, pos>>
             ELSE /\ pos' = res.ps.pos
                  /\ ast' = [ast EXCEPT ![list] = IF list = "routeLines" THEN @ \o res.node
                                                  ELSE Append(@, res.node)]
                  /\ UNCHANGED <<ppc, perr>>
    /\ UNCHANGED <<tokens, src>>
    /\ UNCHANGED notParser

ParseImport == TopLevel(KwImport, ParseImportStmt(tokens, PStart(pos)), "imports")
ParseData == TopLevel(KwData, ParseDataBlock(tokens, PStart(pos)), "dataBlocks")
ParseDo == TopLevel(KwDo, ParseDoBlock(src, tokens, PStart(pos)), "doBlocks")
ParseRoute == TopLevel(KwRoute, ParseRouteBlock(tokens, PStart(pos)), "routeLines")
ParseMigration ==
    TopLevel(KwMigration, ParseMigrationBlock(tokens, PStart(pos)), "migrations")

\* the last statement of the top-level loop: pos++
ParseSkip ==
    /\ ppc = "top"
    /\ ~check(tokens, pos, "EOF")
    /\ \A word \in {KwImport, KwData, KwDo, KwRoute, KwMigration} :
          ~checkValue(tokens, pos, "KEYWORD", word)
    /\ pos' = PastEnd(pos + 1)
    /\ UNCHANGED <<tokens, ast, ppc, perr, skipped, src>>
    /\ UNCHANGED notParser

\* check(TT.EOF) ends the top-level loop: return ast
ParseReturn ==
    /\ ppc = "top"
    /\ check(tokens, pos, "EOF")
    /\ ppc' = "done"
    /\ UNCHANGED <<tokens, pos, ast, perr, skipped, src>>
    /\ UNCHANGED notParser

\* ------------------------------------------------------------------ validation
\* JavaScript values
Undef == [type |-> "undefined"]
JNull == [type |-> "null"]
JArray == [type |-> "array"]
JStr(t) == [type |-> "string", val |-> t]
JNum(n) == [type |-> "number", val |-> n]
JBool(b) == [type |-> "boolean", val |-> b]
JObj(props) == [type |-> "object", props |-> props]

\* data['key']
\* the property name that every object inherits as an accessor: reading it
\* gives the prototype, assigning to it creates no own property
ProtoKey == <<"_", "_", "p", "r", "o", "t", "o", "_", "_">>
ObjectPrototype == JObj(<<>>)

Get(data, key) ==
    IF key \in DOMAIN data.props THEN data.props[key]
    ELSE IF key = ProtoKey THEN ObjectPrototype
    ELSE Undef

\* the decimal value of a text of digits
RECURSIVE Decimal(_)
Decimal(t) ==
    IF t = <<>> THEN 0
    ELSE 10 * Decimal(SubSeq(t, 1, Len(t) - 1))
         + (CHOOSE d \in 0..9 : <<"0", "1", "2", "3", "4", "5", "6", "7", "8", "9">>[d + 1]
                                   = t[Len(t)])

\* Number(v) for the values of the model: [finite, val]
ToNumber(v) ==
    CASE v.type = "number" -> [finite |-> TRUE, val |-> v.val]
      [] v.type = "boolean" -> [finite |-> TRUE, val |-> IF v.val THEN 1 ELSE 0]
      [] v.type = "null" -> [finite |-> TRUE, val |-> 0]
      [] v.type = "string" /\ (\A k \in DOMAIN v.val : v.val[k] \in Digits) ->
            [finite |-> TRUE, val |-> Decimal(v.val)]
      [] OTHER -> [finite |-> FALSE, val |-> 0]

\* Boolean(v)
ToBoolean(v) ==
    CASE v.type = "boolean" -> v.val
      [] v.type = "number" -> v.val # 0
      [] v.type = "string" -> v.val # <<>>
      [] v.type \in {"undefined", "null"} -> FALSE
      [] OTHER -> TRUE

UpperCase == <<"A", "B", "C", "D", "E", "F", "G", "H", "I", "J", "K", "L", "M", "N", "O",
               "P", "Q", "R", "S", "T", "U", "V", "W", "X", "Y", "Z">>
LowerCase == <<"a", "b", "c", "d", "e", "f", "g", "h", "i", "j", "k", "l", "m", "n", "o",
               "p", "q", "r", "s", "t", "u", "v", "w", "x", "y", "z">>

\* String.prototype.toLowerCase
toLowerCase(t) ==
    [k \in DOMAIN t |->
        IF \E j \in DOMAIN UpperCase : UpperCase[j] = t[k]
        THEN LowerCase[CHOOSE j \in DOMAIN UpperCase : UpperCase[j] = t[k]]
        ELSE t[k]]

WMin == <<"m", "i", "n">>
WMax == <<"m", "a", "x">>
StringLikeTypes == {<<"s", "t", "r", "i", "n", "g">>, <<"p", "a", "s", "s", "w", "o", "r", "d">>, <<"d", "a", "t", "e">>, <<"e", "n", "u", "m">>}
WNumber == <<"n", "u", "m", "b", "e", "r">>
WBoolean == <<"b", "o", "o", "l", "e", "a", "n">>

\* f.args?.min !== undefined, and the number written into the generated code
HasArg(f, k) == k \in DOMAIN f.args
ArgNumber(f, k) == Decimal(f.args[k].text)

\* the branch of the generator a field takes
FieldBranch(f) ==
    IF toLowerCase(f.type) \in StringLikeTypes \/ HasArg(f, WEnum) THEN "string"
    ELSE IF toLowerCase(f.type) = WNumber THEN "number"
    ELSE IF toLowerCase(f.type) = WBoolean THEN "boolean"
    ELSE "other"

\* throw Object.assign(new Error('<Schema>: ...'), { status: 400 })
Throw400(schema, what, key) ==
    [ok |-> FALSE,
     err |-> [kind |-> what, schema |-> schema.name, field |-> key, status |-> 400]]
Pass(v) == [ok |-> TRUE, value |-> v]

\* the string-like checks with the enum check placed before the length checks
StringChecks_EnumFirst(schema, f, v) ==
    IF v.type # "string" THEN Throw400(schema, "must be a string", f.name)
    ELSE IF HasArg(f, WEnum) /\ v.val \notin Range(f.args[WEnum].list)
    THEN Throw400(schema, "invalid enum", f.name)
    ELSE IF HasArg(f, WMin) /\ Len(v.val) < ArgNumber(f, WMin)
    THEN Throw400(schema, "too short", f.name)
    ELSE IF HasArg(f, WMax) /\ Len(v.val) > ArgNumber(f, WMax)
    THEN Throw400(schema, "too long", f.name)
    ELSE Pass(v)

\* the statements generated for a string-like field
StringChecks(schema, f, v) ==
    IF v.type # "string" THEN Throw400(schema, "must be a string", f.name)
    ELSE IF HasArg(f, WMin) /\ Len(v.val) < ArgNumber(f, WMin)
    THEN Throw400(schema, "too short", f.name)
    ELSE IF HasArg(f, WMax) /\ Len(v.val) > ArgNumber(f, WMax)
    THEN Throw400(schema, "too long", f.name)
    ELSE IF HasArg(f, WEnum) /\ v.val \notin Range(f.args[WEnum].list)
    THEN Throw400(schema, "invalid enum", f.name)
    ELSE Pass(v)

\* the statements generated for a number field
NumberChecks(schema, f, v) ==
    LET n == ToNumber(v) IN
    IF ~n.finite THEN Throw400(schema, "must be a number", f.name)
    ELSE IF HasArg(f, WMin) /\ n.val < ArgNumber(f, WMin)
    THEN Throw400(schema, "must be >=", f.name)
    ELSE IF HasArg(f, WMax) /\ n.val > ArgNumber(f, WMax)
    THEN Throw400(schema, "must be <=", f.name)
    ELSE Pass(JNum(n.val))

\* CheckField that stores null for a missing required field
CheckField_MissingAsNull(schema, f, data) ==
    LET v == Get(data, f.name) IN
    IF v \in {Undef, JNull} THEN Pass(JNull)
    ELSE CASE FieldBranch(f) = "string" -> StringChecks(schema, f, v)
           [] FieldBranch(f) = "number" -> NumberChecks(schema, f, v)
           [] FieldBranch(f) = "boolean" -> Pass(JBool(ToBoolean(v)))
           [] OTHER -> Pass(v)

\* the statements generated for one field
CheckField(schema, f, data) ==
    LET v == Get(data, f.name) IN
    IF v \in {Undef, JNull}
    THEN IF ~f.optional THEN Throw400(schema, "missing required field", f.name)
         ELSE Pass(JNull)
    ELSE CASE FieldBranch(f) = "string" -> StringChecks(schema, f, v)
           [] FieldBranch(f) = "number" -> NumberChecks(schema, f, v)
           [] FieldBranch(f) = "boolean" -> Pass(JBool(ToBoolean(v)))
           [] OTHER -> Pass(v)

\* the fields the schemas are made of
FieldPool ==
    {[name |-> <<"u", "s", "e", "r", "n", "a", "m", "e">>, type |-> <<"S", "t", "r", "i", "n", "g">>, optional |-> FALSE,
      args |-> (WMin :> Coerce(<<"3">>)) @@ (WMax :> Coerce(<<"5", "0">>))],
     [name |-> <<"r", "o", "l", "e">>, type |-> <<"E", "n", "u", "m">>, optional |-> FALSE,
      args |-> (WEnum :> [list |-> <<<<"a", "d", "m", "i", "n">>, <<"e", "d", "i", "t", "o", "r">>, <<"v", "i", "e", "w", "e", "r">>>>])],
     [name |-> <<"n", "i", "c", "k">>, type |-> <<"S", "t", "r", "i", "n", "g">>, optional |-> TRUE,
      args |-> (WMax :> Coerce(<<"2">>))
               @@ (WEnum :> [list |-> <<<<"a", "b">>, <<"a", "b", "c">>>>])],
     [name |-> <<"a", "g", "e">>, type |-> <<"N", "u", "m", "b", "e", "r">>, optional |-> FALSE,
      args |-> (WMin :> Coerce(<<"1">>)) @@ (WMax :> Coerce(<<"9">>))],
     [name |-> <<"a", "c", "t", "i", "v", "e">>, type |-> <<"B", "o", "o", "l", "e", "a", "n">>, optional |-> TRUE, args |-> <<>>],
     [name |-> <<"n", "o", "t", "e">>, type |-> <<"T", "e", "x", "t">>, optional |-> FALSE, args |-> <<>>]}

\* the lists of up to n fields of different names
RECURSIVE FieldLists(_)
FieldLists(n) ==
    IF n = 0 THEN {<<>>}
    ELSE FieldLists(n - 1)
         \cup {Append(l, f) : l \in FieldLists(n - 1), f \in FieldPool}

DistinctNames(l) == \A j, k \in DOMAIN l : l[j].name = l[k].name => j = k

Schemas ==
    {[name |-> <<"U", "s", "e", "r">>, fields |-> l] : l \in {x \in FieldLists(MaxFields) : DistinctNames(x)}}

\* the values a field of the argument may carry
FieldValues ==
    {JNull, JStr(<<"a", "b">>), JStr(<<"a", "b", "c">>), JStr(<<"a", "d", "m", "i", "n">>), JStr(<<"o", "w", "n", "e", "r">>),
     JStr(<<"7">>), JNum(12345), JNum(5), JBool(TRUE)}

FieldNames(schema) == {schema.fields[k].name : k \in DOMAIN schema.fields}

\* the arguments of the validator generated from schema: objects that carry
\* some of the schema's fields, and values that are not plain objects
Arguments(schema) ==
    {JObj(props) : props \in UNION {[K -> FieldValues] : K \in SUBSET FieldNames(schema)}}
    \cup {JNull, JArray, JStr(<<"a", "b">>)}

\* a field whose name is the inherited accessor, and a key no schema declares
ProtoField == [name |-> ProtoKey, type |-> <<"T", "e", "x", "t">>, optional |-> TRUE, args |-> <<>>]
ExtraKey == <<"i", "s", "A", "d", "m", "i", "n">>

\* the lists of up to n fields of different names, ProtoField among the pool
RECURSIVE KeyFieldLists(_)
KeyFieldLists(n) ==
    IF n = 0 THEN {<<>>}
    ELSE KeyFieldLists(n - 1)
         \cup {Append(l, f) : l \in KeyFieldLists(n - 1), f \in FieldPool \cup {ProtoField}}

KeySchemas ==
    {[name |-> <<"U", "s", "e", "r">>, fields |-> l] :
        l \in {x \in KeyFieldLists(MaxFields) : DistinctNames(x)}}

\* objects that carry some of the schema's fields and perhaps an undeclared key
KeyArguments(schema) ==
    {JObj(props) :
        props \in UNION {[K -> {JNull, JStr(<<"a", "b">>), JNum(5)}] :
                            K \in SUBSET (FieldNames(schema) \cup {ExtraKey})}}

\* validate_<Schema>(data) from its entry to the first field
Call(schema, data) ==
    /\ vschema' = schema
    /\ vdata' = data
    /\ IF data.type # "object"
       THEN /\ vpc' = "thrown"
            /\ verr' = [kind |-> "body must be a plain object",
                        schema |-> schema.name, status |-> 400]
            /\ vi' = 0
       ELSE /\ vpc' = "fields"
            /\ vi' = 1
            /\ verr' = verr
    /\ vresult' = <<>>
    /\ UNCHANGED notValidator

\* validate_<Schema>(data) is called: the plain-object test, const result = {}
ValidateCall ==
    /\ vpc = "idle"
    /\ \E schema \in Schemas :
       \E data \in Arguments(schema) : Call(schema, data)

\* validate_<Schema>(data) is called with any keys in schema and argument
ValidateCallKeys ==
    /\ vpc = "idle"
    /\ \E schema \in KeySchemas :
       \E data \in KeyArguments(schema) : Call(schema, data)

\* result['key'] = v
Assign(result, key, v) == IF key = ProtoKey THEN result ELSE SetArg(result, key, v)

\* the statements generated for field vi are executed
ValidateField ==
    /\ vpc = "fields"
    /\ vi <= Len(vschema.fields)
    /\ \E r \in {CheckField(vschema, vschema.fields[vi], vdata)} :
          IF r.ok
          THEN /\ vresult' = Assign(vresult, vschema.fields[vi].name, r.value)
               /\ vi' = vi + 1
               /\ UNCHANGED <<vpc, verr>>
          ELSE /\ vpc' = "thrown"
               /\ verr' = r.err
               /\ UNCHANGED <<vi, vresult>>
    /\ UNCHANGED <<vschema, vdata>>
    /\ UNCHANGED notValidator

\* return result
ValidateReturn ==
    /\ vpc = "fields"
    /\ vi > Len(vschema.fields)
    /\ vpc' = "returned"
    /\ UNCHANGED <<vschema, vdata, vi, vresult, verr>>
    /\ UNCHANGED notValidator

\* ------------------------------------------------------------------ route handler
\* the steps a pipeline is made of: validators exist for User, actions for
\* f and g; Ghost and h are names without a validator or an action
StepPool ==
    {[kind |-> "auth"],
     [kind |-> "validate", schema |-> <<"U", "s", "e", "r">>],
     [kind |-> "validate", schema |-> <<"G", "h", "o", "s", "t">>],
     [kind |-> "action", name |-> <<"f">>],
     [kind |-> "action", name |-> <<"h">>]}
validators == {<<"U", "s", "e", "r">>}
actions == {<<"f">>, <<"g">>}

Pipelines == UNION {[1..n -> StepPool] : n \in 0..MaxPipeline}

\* the Authorization header of a request, as the auth middleware reads it
Credentials == {"none", "not bearer", "invalid token", "valid token"}

\* what a call of an action does: return a value, null or undefined, or throw
\* an error that carries a status or none
ActionOutcomes ==
    {[throws |-> FALSE, result |-> r] : r \in {"value", "null", "undefined"}}
    \cup {[throws |-> TRUE, status |-> 404]}
    \cup {[throws |-> TRUE]}

\* what a call of a validator does: return the sanitized record or throw
ValidateOutcomes == {[throws |-> FALSE], [throws |-> TRUE, status |-> 400]}

Requests == 1..NumRequests

NewRequest ==
    [pc |-> "new", cred |-> "none", ctx |-> [kind |-> "none"], i |-> 0,
     calls |-> <<>>, responses |-> <<>>]

\* pipeline.some((s) => s.kind === 'auth') looking at the first step only
hasAuth_FirstStepOnly(p) == Len(p) > 0 /\ p[1].kind = "auth"

\* const hasAuth = pipeline.some((s) => s.kind === 'auth')
hasAuth(p) == \E k \in DOMAIN p : p[k].kind = "auth"

\* res.status(status).json(body): the request is answered
Respond(q, status, body) ==
    [q EXCEPT !.responses = Append(@, [status |-> status, body |-> body]), !.pc = "done"]

\* a catch clause inside the loop: answers, then goes on with the next step
Catch_Continue(q, err) ==
    LET status == IF "status" \in DOMAIN err THEN err.status ELSE 500 IN
    [Respond(q, status, [error |-> IF status = 400 THEN "Validation Error"
                                   ELSE "Execution Error"])
       EXCEPT !.pc = "steps", !.i = q.i + 1]

\* the catch clause of the handler: status = err.status ?? 500
Catch(q, err) ==
    LET status == IF "status" \in DOMAIN err THEN err.status ELSE 500 IN
    Respond(q, status, [error |-> IF status = 400 THEN "Validation Error"
                                  ELSE "Execution Error"])


\* if (result !== undefined) ctx = result, with the test left out
NextCtx_Always(ctx, result) == result

\* if (result !== undefined) ctx = result
NextCtx(ctx, result) == IF result.kind # "undefined" THEN result ELSE ctx

\* result ?? { success: true }
Answer(result) == IF result.kind \in {"null", "undefined"} THEN [success |-> TRUE] ELSE result

\* the call of step q.i with the context as input is recorded with its output
Called(q, output) ==
    [q EXCEPT !.calls = Append(@, [step |-> q.i, input |-> q.ctx, output |-> output])]

\* what a step throws
Thrown(o) == [kind |-> "thrown", status |-> IF "status" \in DOMAIN o THEN o.status ELSE 500]

\* a request arrives at the route
Arrive(r) ==
    /\ reqs[r].pc = "new"
    /\ reqs' = [reqs EXCEPT ![r].pc = IF hasAuth(pipeline) THEN "auth" ELSE "handler"]
    /\ UNCHANGED <<pipeline, activeRequests>>
    /\ UNCHANGED notRoute

\* authMiddleware()(req, res, next)
AuthMiddleware(r) ==
    /\ reqs[r].pc = "auth"
    /\ \E authHeader \in Credentials :
          LET q == [reqs[r] EXCEPT !.cred = authHeader] IN
          reqs' = [reqs EXCEPT ![r] =
                      IF authHeader \in {"none", "not bearer"}
                      THEN Respond(q, 401, [error |-> "No token provided"])
                      ELSE IF authHeader = "invalid token"
                      THEN Respond(q, 401, [error |-> "Invalid token"])
                      ELSE [q EXCEPT !.pc = "handler"]]
    /\ UNCHANGED <<pipeline, activeRequests>>
    /\ UNCHANGED notRoute

\* the handler starts: activeRequests.inc(1); ctx = {query, params, body}
HandlerStart(r) ==
    /\ reqs[r].pc = "handler"
    /\ activeRequests' = activeRequests + 1
    /\ reqs' = [reqs EXCEPT ![r].pc = "steps", ![r].i = 1, ![r].ctx = [kind |-> "request"]]
    /\ UNCHANGED pipeline
    /\ UNCHANGED notRoute

AtStep(r, kind) ==
    /\ reqs[r].pc = "steps"
    /\ reqs[r].i <= Len(pipeline)
    /\ pipeline[reqs[r].i].kind = kind

\* if (step.kind === 'auth') continue
StepAuth(r) ==
    /\ AtStep(r, "auth")
    /\ reqs' = [reqs EXCEPT ![r].i = @ + 1]
    /\ UNCHANGED <<pipeline, activeRequests>>
    /\ UNCHANGED notRoute

\* ctx = v.validate(ctx)
StepValidate(r) ==
    /\ AtStep(r, "validate")
    /\ LET q == reqs[r]
           step == pipeline[q.i]
       IN
       IF step.schema \notin validators
       THEN reqs' = [reqs EXCEPT ![r] = Catch(q, [status |-> 500])]
       ELSE \E o \in ValidateOutcomes :
               LET sanitized == [kind |-> "sanitized", step |-> q.i]
               IN reqs' = [reqs EXCEPT ![r] =
                             IF o.throws THEN Catch(Called(q, Thrown(o)), o)
                             ELSE [Called(q, sanitized) EXCEPT !.ctx = sanitized,
                                                               !.i = @ + 1]]
    /\ activeRequests' = IF reqs'[r].pc = "done" THEN activeRequests - 1 ELSE activeRequests
    /\ UNCHANGED pipeline
    /\ UNCHANGED notRoute

\* result = await Promise.resolve(fn(ctx, null, sugar, req)); the last step
\* answers with result ?? { success: true }
StepAction(r) ==
    /\ AtStep(r, "action")
    /\ LET q == reqs[r]
           step == pipeline[q.i]
       IN
       IF step.name \notin actions
       THEN reqs' = [reqs EXCEPT ![r] = Catch(q, [status |-> 500])]
       ELSE \E o \in ActionOutcomes :
               LET result == [kind |-> o.result, step |-> q.i]
               IN reqs' = [reqs EXCEPT ![r] =
                             IF o.throws THEN Catch(Called(q, Thrown(o)), o)
                             ELSE IF q.i = Len(pipeline)
                             THEN Respond(Called(q, result), 200, Answer(result))
                             ELSE [Called(q, result) EXCEPT !.ctx = NextCtx(@, result),
                                                            !.i = @ + 1]]
    /\ activeRequests' = IF reqs'[r].pc = "done" THEN activeRequests - 1 ELSE activeRequests
    /\ UNCHANGED pipeline
    /\ UNCHANGED notRoute

\* the loop over the pipeline is over: res.json({ success: true })
StepsDone(r) ==
    /\ reqs[r].pc = "steps"
    /\ reqs[r].i > Len(pipeline)
    /\ activeRequests' = activeRequests - 1
    /\ reqs' = [reqs EXCEPT ![r] = Respond(@, 200, [success |-> TRUE])]
    /\ UNCHANGED pipeline
    /\ UNCHANGED notRoute

\* ------------------------------------------------------------------ query builder
\* A statement is a sequence of pieces: literal text of the template, a
\* double-quoted identifier `"${name}"`, a `?` marker, a `$n` marker.
Text(t) == [piece |-> "text", text |-> t]
Ident(name) == [piece |-> "ident", name |-> name]
Mark == [piece |-> "?"]
Dollar(n) == [piece |-> "$", n |-> n]

RECURSIVE JoinFrom(_, _, _)
\* parts[k..].join(sep)
JoinFrom(parts, k, sep) ==
    IF k > Len(parts) THEN <<>>
    ELSE IF k = Len(parts) THEN parts[k]
    ELSE parts[k] \o <<sep>> \o JoinFrom(parts, k + 1, sep)

\* parts.join(', ')
Join(parts) == JoinFrom(parts, 1, Text(", "))

insertSql(table, columns, adapter) ==
    LET cols == Join([i \in DOMAIN columns |-> <<Ident(columns[i])>>])
        params == IF adapter = "sqlite"
                  THEN Join([i \in DOMAIN columns |-> <<Mark>>])
                  ELSE Join([i \in DOMAIN columns |-> <<Dollar(i)>>])
        returning == IF adapter = "postgres" THEN <<Text(" RETURNING id")>> ELSE <<>>
    IN <<Text("INSERT INTO "), Ident(table), Text(" (")>> \o cols
       \o <<Text(") VALUES (")>> \o params \o <<Text(")")>> \o returning

updateSql(table, columns, adapter) ==
    IF Len(columns) = 0
    THEN <<Text("UPDATE "), Ident(table), Text(" SET id = id WHERE id = "), Mark>>
    ELSE LET sets == IF adapter = "sqlite"
                     THEN Join([i \in DOMAIN columns |->
                                  <<Ident(columns[i]), Text(" = "), Mark>>])
                     ELSE Join([i \in DOMAIN columns |->
                                  <<Ident(columns[i]), Text(" = "), Dollar(i)>>])
             idParam == IF adapter = "sqlite" THEN Mark ELSE Dollar(Len(columns) + 1)
         IN <<Text("UPDATE "), Ident(table), Text(" SET ")>> \o sets
            \o <<Text(" WHERE id = "), idParam>>

deleteSql(table, adapter) ==
    IF adapter = "sqlite"
    THEN <<Text("DELETE FROM "), Ident(table), Text(" WHERE id = "), Mark>>
    ELSE <<Text("DELETE FROM "), Ident(table), Text(" WHERE id = "), Dollar(1)>>

findByIdSql(table, adapter) ==
    IF adapter = "sqlite"
    THEN <<Text("SELECT * FROM "), Ident(table), Text(" WHERE id = "), Mark>>
    ELSE <<Text("SELECT * FROM "), Ident(table), Text(" WHERE id = "), Dollar(1)>>

\* the tables, columns and dialects the templates are called with
TableNames == {<<"U", "s", "e", "r">>, <<"P", "o", "s", "t">>}
ColumnNames == {<<"n", "a", "m", "e">>, <<"e", "m", "a", "i", "l">>, <<"a", "g", "e">>}
ColumnLists == UNION {[1..n -> ColumnNames] : n \in 0..MaxCols}
Adapters == {"sqlite", "postgres"}

InsertSql ==
    /\ qadapter \in Adapters
    /\ qop' = "insert"
    /\ qsql' = insertSql(qtable, qcolumns, qadapter)
    /\ UNCHANGED <<qtable, qcolumns, qadapter, notQuery>>

UpdateSql ==
    /\ qadapter \in Adapters
    /\ qop' = "update"
    /\ qsql' = updateSql(qtable, qcolumns, qadapter)
    /\ UNCHANGED <<qtable, qcolumns, qadapter, notQuery>>

DeleteSql ==
    /\ qadapter \in Adapters
    /\ qop' = "delete"
    /\ qsql' = deleteSql(qtable, qadapter)
    /\ UNCHANGED <<qtable, qcolumns, qadapter, notQuery>>

FindByIdSql ==
    /\ qadapter \in Adapters
    /\ qop' = "findById"
    /\ qsql' = findByIdSql(qtable, qadapter)
    /\ UNCHANGED <<qtable, qcolumns, qadapter, notQuery>>

\* ------------------------------------------------------------------ list queries
\* the data block the helpers are generated for, and the tables sugar knows
ListTable == <<"U", "s", "e", "r">>
ListFields == <<<<"n", "a", "m", "e">>, <<"e", "m", "a", "i", "l">>>>
knownTables == {ListTable}

\* const allowedCols = JSON.stringify(['id', ...b.fields.map(f => f.name)])
allowedCols(fields) == <<<<"i", "d">>>> \o fields

\* the tableColumns argument of createSugar: given by the compiler, or the default {}
TableColumnsArgs == {[t \in {ListTable} |-> allowedCols(ListFields)], <<>>}

\* a value in a condition: objects and functions are truthy
Truthy(v) == IF v.type \in {"object", "function"} THEN TRUE ELSE ToBoolean(v)

\* o[key]: a property of an object or function; undefined on a primitive
Prop(o, key) == IF o.type \in {"object", "function"} THEN o[key] ELSE Undef

\* list.includes(v) on a list of strings
includes(list, v) == v.type = "string" /\ \E k \in DOMAIN list : list[k] = v.val

\* `${v}`
Interpolated(v) ==
    CASE v.type = "string" -> v.val
      [] v.type = "undefined" -> <<"u", "n", "d", "e", "f", "i", "n", "e", "d">>
      [] v.type = "null" -> <<"n", "u", "l", "l">>

\* (v || dflt).toLowerCase() throws a TypeError unless v is falsy or a string
LowerThrows(v) == Truthy(v) /\ v.type # "string"
Lower(v, dflt) == toLowerCase(IF Truthy(v) THEN v.val ELSE dflt)

ALLOWED_DIRECTIONS == {<<"a", "s", "c">>, <<"d", "e", "s", "c">>}

\* the orderBy check of the generated findAll when it looks at objects only
AotOrderByRejected_ObjectsOnly(allowed, orderBy) ==
    orderBy.type = "object" /\ ~includes(allowed, Prop(orderBy, "field"))

\* if (orderBy && !allowed.includes(orderBy.field)) throw ...
AotOrderByRejected(allowed, orderBy) ==
    Truthy(orderBy) /\ ~includes(allowed, Prop(orderBy, "field"))

\* some key of where is not allowed
AotWhereRejected(allowed, where) ==
    \E k \in DOMAIN where.keys : ~includes(allowed, JStr(where.keys[k]))

\* assertTable(table) passes
assertTable(table) == table \in knownTables

\* assertOrderBy(table, orderBy) of runtime/sugar.js throws
assertOrderBy(table, orderBy, tableColumns) ==
    IF ~Truthy(orderBy) \/ orderBy.type # "object" THEN FALSE
    ELSE LET field == orderBy.field
             direction == orderBy.direction
         IN \/ ~Truthy(field) \/ field.type # "string"
            \/ LowerThrows(direction)
            \/ Lower(direction, <<>>) \notin ALLOWED_DIRECTIONS
            \/ ~assertTable(table)
            \/ table \in DOMAIN tableColumns /\ ~includes(tableColumns[table], field)

\* assertOrderBy(table, orderBy) of runtime/core throws
coreAssertOrderBy(table, orderBy) ==
    IF ~Truthy(orderBy) \/ orderBy.type # "object" THEN FALSE
    ELSE LET field == orderBy.field
             direction == orderBy.direction
         IN \/ ~Truthy(field) \/ field.type # "string"
            \/ LowerThrows(direction)
            \/ Lower(direction, <<>>) \notin ALLOWED_DIRECTIONS
            \/ ~assertTable(table)

\* orderBy ? { field: orderBy.field, direction: (orderBy.direction || 'asc').toLowerCase() } : null
PassedOrderBy(orderBy) ==
    IF Truthy(orderBy)
    THEN [type |-> "object", field |-> Prop(orderBy, "field"),
          direction |-> JStr(Lower(Prop(orderBy, "direction"), <<"a", "s", "c">>))]
    ELSE JNull

\* the calls that are made
KeyNames == {<<"i", "d">>, <<"n", "a", "m", "e">>, <<"x", "\"", " ", "-", "-">>}
KeyLists == UNION {[1..n -> KeyNames] : n \in 0..MaxKeys}
Wheres == {JNull} \cup {[type |-> "object", keys |-> ks] : ks \in KeyLists}
FieldVals == {Undef, JNull, JStr(<<>>), JStr(<<"n", "a", "m", "e">>), JStr(<<"x", "\"", " ", "-", "-">>)}
DirVals == {Undef, JNum(1), JStr(<<"a", "s", "c">>), JStr(<<"D", "E", "S", "C">>), JStr(<<"u", "p">>)}
OrderBys ==
    {JNull, JStr(<<"n", "a", "m", "e">>)}
    \cup {[type |-> ty, field |-> f, direction |-> d] :
             ty \in {"object", "function"}, f \in FieldVals, d \in DirVals}
Apis == {"aot", "sugar", "coreSugar"}

\* findAll / all is called
FindAllCall ==
    /\ fpc = "idle"
    /\ \E api \in Apis, table \in {ListTable, <<"G", "h", "o", "s", "t">>}, where \in Wheres,
          orderBy \in OrderBys, tableColumns \in TableColumnsArgs, adapter \in Adapters :
          /\ api = "aot" => table = ListTable
          /\ api # "sugar" => tableColumns = <<>>
          /\ fcall' = [api |-> api, table |-> table, where |-> where, orderBy |-> orderBy,
                       tableColumns |-> tableColumns, adapter |-> adapter]
    /\ fpc' = "check"
    /\ UNCHANGED <<ferr, fargs, fsql, notList>>

\* the body of the generated aot_db.<Table>.findAll up to its db.findAll call
AotFindAll ==
    /\ fpc = "check"
    /\ fcall.api = "aot"
    /\ LET allowed == allowedCols(ListFields) IN
       IF fcall.where.type = "null"
       THEN ferr' = [kind |-> "TypeError"] /\ fpc' = "thrown" /\ UNCHANGED fargs
       ELSE IF AotWhereRejected(allowed, fcall.where)
       THEN /\ ferr' = [kind |-> "Invalid where column", status |-> 400]
            /\ fpc' = "thrown" /\ UNCHANGED fargs
       ELSE IF AotOrderByRejected(allowed, fcall.orderBy)
       THEN /\ ferr' = [kind |-> "Invalid orderBy column", status |-> 400]
            /\ fpc' = "thrown" /\ UNCHANGED fargs
       ELSE /\ fargs' = Append(fargs, [table |-> fcall.table, where |-> fcall.where,
                                       orderBy |-> fcall.orderBy])
            /\ fpc' = "adapter" /\ UNCHANGED ferr
    /\ UNCHANGED <<fcall, fsql, notList>>

\* what sugar.all does once the orderBy check is over
SugarCall(threw) ==
    IF ~assertTable(fcall.table) \/ threw
    THEN ferr' = [kind |-> "Error"] /\ fpc' = "thrown" /\ UNCHANGED fargs
    ELSE IF Truthy(fcall.orderBy) /\ LowerThrows(Prop(fcall.orderBy, "direction"))
    THEN ferr' = [kind |-> "TypeError"] /\ fpc' = "thrown" /\ UNCHANGED fargs
    ELSE /\ fargs' = Append(fargs, [table |-> fcall.table, where |-> fcall.where,
                                    orderBy |-> PassedOrderBy(fcall.orderBy)])
         /\ fpc' = "adapter" /\ UNCHANGED ferr

\* sugar.all of runtime/sugar.js up to its db.findAll call
SugarAll ==
    /\ fpc = "check"
    /\ fcall.api = "sugar"
    /\ SugarCall(assertOrderBy(fcall.table, fcall.orderBy, fcall.tableColumns))
    /\ UNCHANGED <<fcall, fsql, notList>>

\* sugar.all of runtime/core up to its db.findAll call
CoreSugarAll ==
    /\ fpc = "check"
    /\ fcall.api = "coreSugar"
    /\ SugarCall(coreAssertOrderBy(fcall.table, fcall.orderBy))
    /\ UNCHANGED <<fcall, fsql, notList>>

\* SqliteAdapter.findAll / PostgresAdapter.findAll build the statement
AdapterFindAll ==
    /\ fpc = "adapter"
    /\ LET a == fargs[Len(fargs)] IN
       IF a.where.type = "null"
       THEN ferr' = [kind |-> "TypeError"] /\ fpc' = "thrown" /\ UNCHANGED fsql
       ELSE LET keys == a.where.keys
                conditions == [k \in DOMAIN keys |->
                                 <<Ident(keys[k]), Text(" = "),
                                   IF fcall.adapter = "sqlite" THEN Mark ELSE Dollar(k)>>]
                dir == IF Prop(a.orderBy, "direction") = JStr(<<"d", "e", "s", "c">>)
                       THEN " DESC" ELSE " ASC"
            IN /\ fsql' = <<Text("SELECT * FROM "), Ident(a.table)>>
                          \o (IF Len(keys) > 0
                              THEN <<Text(" WHERE ")>> \o JoinFrom(conditions, 1, Text(" AND "))
                              ELSE <<>>)
                          \o (IF Truthy(a.orderBy)
                              THEN <<Text(" ORDER BY "),
                                     Ident(Interpolated(Prop(a.orderBy, "field"))), Text(dir)>>
                              ELSE <<>>)
               /\ fpc' = "returned" /\ UNCHANGED ferr
    /\ UNCHANGED <<fcall, fargs, notList>>

\* the call is over
FindAllReturn ==
    /\ fpc \in {"returned", "thrown"}
    /\ fcall' = [api |-> "none"]
    /\ fpc' = "idle"
    /\ ferr' = [kind |-> "none"]
    /\ fargs' = <<>>
    /\ fsql' = <<>>
    /\ UNCHANGED notList

\* ------------------------------------------------------------------ sugar object
\* String.prototype.toUpperCase
toUpperCase(t) ==
    [k \in DOMAIN t |->
        IF \E j \in DOMAIN LowerCase : LowerCase[j] = t[k]
        THEN UpperCase[CHOOSE j \in DOMAIN LowerCase : LowerCase[j] = t[k]]
        ELSE t[k]]

\* String.prototype.startsWith
startsWith(t, p) == Len(t) >= Len(p) /\ SubSeq(t, 1, Len(p)) = p

\* assertSelectOnly(sql) returns without throwing
assertSelectOnly(sql) ==
    LET trimmed == Trim(IF sql.type = "string" THEN sql.val ELSE <<>>) IN
    startsWith(toUpperCase(trimmed), <<"S", "E", "L", "E", "C", "T">>)

\* the tables of the database: one declared by a data block, one not
SecretTable == <<"S", "e", "c", "r", "e", "t">>
SugarTables == knownTables \cup {SecretTable}

\* the tables a statement names
TablesOf(text) ==
    {t \in SugarTables :
        \E k \in 1..(Len(text) - Len(t) + 1) : SubSeq(text, k, k + Len(t) - 1) = t}

\* statements an action hands to sugar.query
Sqls ==
    {JStr(<<"S", "E", "L", "E", "C", "T", " ", "*", " ", "F", "R", "O", "M", " ", "U", "s", "e", "r">>), JStr(<<" ", "s", "e", "l", "e", "c", "t", " ", "*", " ", "f", "r", "o", "m", " ", "S", "e", "c", "r", "e", "t">>),
     JStr(<<"D", "E", "L", "E", "T", "E", " ", "F", "R", "O", "M", " ", "S", "e", "c", "r", "e", "t">>), JStr(<<"D", "E", "L", "E", "T", "E", " ", "F", "R", "O", "M", " ", "U", "s", "e", "r">>), JNum(1)}

\* callbacks an action hands to sugar.transaction: the calls each makes on
\* the adapter it is given
Callbacks ==
    {<<>>} \cup {<<[method |-> a, tables |-> {t}]>> : a \in {"insert", "findAll"}, t \in SugarTables}

\* a table-scoped method: assertTable(table); return db.<adapterMethod>(table, ...)
TableCall(method, adapterMethod, table, rejected) ==
    /\ Len(glog) < MaxSugarCalls
    /\ gcall' = [method |-> method, table |-> table]
    /\ IF ~assertTable(table) \/ rejected
       THEN /\ gout' = "thrown"
            /\ glog' = glog
       ELSE /\ gout' = "returned"
            /\ glog' = Append(glog, [method |-> adapterMethod, tables |-> {table}])
    /\ UNCHANGED notSugar

save == \E table \in SugarTables : TableCall("save", "insert", table, FALSE)

all ==
    \E table \in SugarTables, orderBy \in OrderBys, tableColumns \in TableColumnsArgs :
        TableCall("all", "findAll", table, assertOrderBy(table, orderBy, tableColumns))

find == \E table \in SugarTables : TableCall("find", "findById", table, FALSE)

remove == \E table \in SugarTables : TableCall("remove", "delete", table, FALSE)

update == \E table \in SugarTables : TableCall("update", "update", table, FALSE)

\* query(sql, ...params): assertSelectOnly(sql); return db.query(sql, params)
query ==
    /\ Len(glog) < MaxSugarCalls
    /\ \E sql \in Sqls :
          /\ gcall' = [method |-> "query", sql |-> sql]
          /\ IF ~assertSelectOnly(sql)
             THEN /\ gout' = "thrown"
                  /\ glog' = glog
             ELSE /\ gout' = "returned"
                  /\ glog' = Append(glog, [method |-> "query", tables |-> TablesOf(sql.val)])
    /\ UNCHANGED notSugar

\* transaction(callback): return db.transaction(callback), which runs
\* callback(this) with the adapter itself
transaction ==
    /\ \E callback \in Callbacks :
          /\ Len(glog) + Len(callback) <= MaxSugarCalls
          /\ gcall' = [method |-> "transaction", callback |-> callback]
          /\ glog' = glog \o callback
    /\ gout' = "returned"
    /\ UNCHANGED notSugar

\* ------------------------------------------------------------------ compile
\* a statement of compile throws: the call ends with that error
Raise(message) ==
    /\ cpc' = "raised"
    /\ cerr' = message
    /\ UNCHANGED <<cfs, cbefore, ccalls>>

\* a statement of compile that writes nothing: it passes on to the next
\* statement, or throws
Statement(at, next, message) ==
    /\ cpc = at
    /\ \/ /\ cpc' = next
          /\ UNCHANGED <<cfs, cbefore, ccalls, cerr>>
       \/ Raise(message)
    /\ UNCHANGED notCompile

\* compile(rootDir) is called
Compile ==
    /\ cpc \in {"idle", "returned", "raised"}
    /\ ccalls < MaxCompiles
    /\ ccalls' = ccalls + 1
    /\ cbefore' = cfs
    /\ cerr' = "none"
    /\ cpc' = "loadConfig"
    /\ UNCHANGED cfs
    /\ UNCHANGED notCompile

\* const config = await loadConfig(rootDir)
LoadConfig == Statement("loadConfig", "existsSync", "config")

\* if (!fs.existsSync(entry)) throw new Error(...)
CheckEntry == Statement("existsSync", "resolveModules", "Entry file not found")

\* const ast = resolveModules(entry, config.root)
ResolveModules == Statement("resolveModules", "generate", "resolve")

\* const { server, types } = generate(ast, ...)
Generate == Statement("generate", "mkdirSync", "generate")

\* if (!fs.existsSync(outDir)) fs.mkdirSync(outDir, { recursive: true })
MakeOutDir ==
    /\ cpc = "mkdirSync"
    /\ \/ /\ cpc' = "writeServer"
          /\ cfs' = [cfs EXCEPT !.outDir = TRUE]
          /\ UNCHANGED <<cbefore, ccalls, cerr>>
       \/ /\ ~cfs.outDir
          /\ Raise("mkdir")
    /\ UNCHANGED notCompile

\* fs.writeFileSync(output.server, server, 'utf-8')
WriteServer ==
    /\ cpc = "writeServer"
    /\ \/ /\ cpc' = "writeTypes"
          /\ cfs' = [cfs EXCEPT !.server = ccalls]
          /\ UNCHANGED <<cbefore, ccalls, cerr>>
       \/ Raise("write server")
    /\ UNCHANGED notCompile

\* fs.writeFileSync(output.types, types, 'utf-8'); return
WriteTypes ==
    /\ cpc = "writeTypes"
    /\ \/ /\ cpc' = "returned"
          /\ cfs' = [cfs EXCEPT !.types = ccalls]
          /\ UNCHANGED <<cbefore, ccalls, cerr>>
       \/ Raise("write types")
    /\ UNCHANGED notCompile

\* ------------------------------------------------------------------ aot_db call sites
\* The text of an argument list is a sequence of pieces: an expression
\* `data.<name>`, the expression `id`, and the separator of join(', ').
DataProp(name) == [piece |-> "data", name |-> name]
IdArg == [piece |-> "id"]
Hole == [piece |-> "hole"]
Separator == Text(", ")

\* const args = b.fields.map(f => `data.${f.name}`)
args(columns) == [i \in DOMAIN columns |-> <<DataProp(columns[i])>>]

\* the emitted texts between the parentheses or brackets of each call site
SaveText(columns) == Join(args(columns))
UpdateText(columns) == Join(args(columns)) \o <<Separator, IdArg>>
IdText == <<IdArg>>

\* the slots of a comma-separated list: what stands between the separators
RECURSIVE Slots(_)
Slots(text) ==
    IF text = <<>> THEN <<<<>>>>
    ELSE IF Head(text) = Separator THEN <<<<>>>> \o Slots(Tail(text))
    ELSE LET r == Slots(Tail(text)) IN <<<<Head(text)>> \o r[1]>> \o Tail(r)

\* how JavaScript reads the text as the arguments of a call: an empty slot
\* is a syntax error
CallArguments(text) ==
    IF text = <<>> THEN [values |-> <<>>]
    ELSE LET slots == Slots(text) IN
         IF \E k \in DOMAIN slots : slots[k] = <<>> THEN [error |-> "SyntaxError"]
         ELSE [values |-> [k \in DOMAIN slots |-> slots[k][1]]]

\* how JavaScript reads the text as an array literal: an empty slot is a
\* hole that counts as an element, but for one after the last comma
ArrayLiteral(text) ==
    IF text = <<>> THEN [values |-> <<>>]
    ELSE LET all_ == Slots(text)
             slots == IF all_[Len(all_)] = <<>> THEN SubSeq(all_, 1, Len(all_) - 1) ELSE all_
         IN [values |-> [k \in DOMAIN slots |->
                            IF slots[k] = <<>> THEN Hole ELSE slots[k][1]]]

\* the values a call site binds: stmt.run(...) / stmt.get(...) for sqlite,
\* db.pool.query(stmt, [...]) for postgres
Bound(adapter, text) ==
    IF adapter = "sqlite" THEN CallArguments(text) ELSE ArrayLiteral(text)

\* one helper of aot_db[t] runs: its call site and the statement of PREP[t]
Helper(op, text, template) ==
    /\ aop' = op
    /\ abound' = Bound(aadapter, text)
    /\ atemplate' = template
    /\ UNCHANGED <<acolumns, aadapter>>
    /\ UNCHANGED notAot

AotSave == Helper("save", SaveText(acolumns), insertSql(ListTable, acolumns, aadapter))
AotUpdate == Helper("update", UpdateText(acolumns), updateSql(ListTable, acolumns, aadapter))
AotRemove == Helper("remove", IdText, deleteSql(ListTable, aadapter))
AotFind == Helper("find", IdText, findByIdSql(ListTable, aadapter))

\* ------------------------------------------------------------------ dev supervisor
\* serverProcess = startServer(...), the last statement of callback i that
\* changes state
startServer(i, procs) ==
    /\ Len(procs) < MaxSpawns
    /\ children' = Append(procs, "running")
    /\ serverProcess' = Len(procs) + 1
    /\ rebuilds' = [rebuilds EXCEPT ![i] = [pc |-> "done"]]

\* a watcher event (change, add, ready) calls rebuildAndRestart: the pending
\* timer is cleared and a new one is set
FileChange ==
    /\ rebuildDebounceTimer' = TRUE
    /\ UNCHANGED <<serverProcess, children, rebuilds>>
    /\ UNCHANGED notDev

\* the debounce timer fires: its callback runs up to await runCompile()
TimerFires ==
    /\ rebuildDebounceTimer
    /\ Len(rebuilds) < MaxRebuilds
    /\ rebuildDebounceTimer' = FALSE
    /\ rebuilds' = Append(rebuilds, [pc |-> "compile"])
    /\ UNCHANGED <<serverProcess, children>>
    /\ UNCHANGED notDev

\* runCompile() of callback i gives null: the callback returns
CompileFailed ==
    /\ \E i \in DOMAIN rebuilds :
          /\ rebuilds[i].pc = "compile"
          /\ rebuilds' = [rebuilds EXCEPT ![i] = [pc |-> "done"]]
    /\ UNCHANGED <<serverProcess, children, rebuildDebounceTimer>>
    /\ UNCHANGED notDev

\* runCompile() of callback i gives a result: killServer() runs. Without a
\* server it resolves at once and the callback goes on to startServer; with
\* one it clears serverProcess, sends SIGTERM and waits.
CompileDone ==
    /\ \E i \in DOMAIN rebuilds :
          /\ rebuilds[i].pc = "compile"
          /\ IF serverProcess = 0
             THEN startServer(i, children)
             ELSE /\ rebuilds' = [rebuilds EXCEPT ![i] = [pc |-> "killServer",
                                                          proc |-> serverProcess]]
                  /\ serverProcess' = 0
                  /\ children' = [children EXCEPT ![serverProcess] =
                                     IF @ = "running" THEN "signalled" ELSE @]
    /\ UNCHANGED rebuildDebounceTimer
    /\ UNCHANGED notDev

\* a child exits, by itself or after a signal; a callback waiting for it in
\* killServer goes on to startServer
ChildExit ==
    /\ \E p \in DOMAIN children :
          /\ children[p] # "exited"
          /\ LET procs == [children EXCEPT ![p] = "exited"] IN
             IF \E i \in DOMAIN rebuilds :
                    rebuilds[i].pc = "killServer" /\ rebuilds[i].proc = p
             THEN \E i \in DOMAIN rebuilds :
                     /\ rebuilds[i].pc = "killServer" /\ rebuilds[i].proc = p
                     /\ startServer(i, procs)
             ELSE /\ children' = procs
                  /\ UNCHANGED <<serverProcess, rebuilds>>
    /\ UNCHANGED rebuildDebounceTimer
    /\ UNCHANGED notDev

\* the kill timeout of callback i fires: SIGKILL, done(), then startServer
KillTimeout ==
    /\ \E i \in DOMAIN rebuilds :
          /\ rebuilds[i].pc = "killServer"
          /\ startServer(i, children)
    /\ UNCHANGED rebuildDebounceTimer
    /\ UNCHANGED notDev

\* ------------------------------------------------------------------ connection pool
Clients == 1..NumClients

\* acquire() called by c
acquire(c) ==
    /\ held[c] = 0 /\ ticket[c] = 0
    /\ acquires < MaxAcquires
    /\ acquires' = acquires + 1
    /\ IF Len(pool) > 0
       THEN LET db == pool[Len(pool)] IN
            /\ pool' = SubSeq(pool, 1, Len(pool) - 1)
            /\ inUse' = inUse \cup {db}
            /\ held' = [held EXCEPT ![c] = db]
            /\ UNCHANGED <<waitingQueue, created, ticket>>
       ELSE IF Cardinality(inUse) < maxSize
       THEN /\ created' = created + 1
            /\ inUse' = inUse \cup {created + 1}
            /\ held' = [held EXCEPT ![c] = created + 1]
            /\ UNCHANGED <<pool, waitingQueue, ticket>>
       ELSE /\ waitingQueue' = Append(waitingQueue, c)
            /\ ticket' = [ticket EXCEPT ![c] = acquires + 1]
            /\ UNCHANGED <<pool, inUse, created, held>>
    /\ UNCHANGED handed
    /\ UNCHANGED notPool

\* release that serves the caller that began to wait last
release_Newest(c) ==
    /\ held[c] # 0
    /\ LET db == held[c] IN
       IF db \in inUse
       THEN IF Len(waitingQueue) > 0
            THEN LET w == waitingQueue[Len(waitingQueue)] IN
                 /\ waitingQueue' = SubSeq(waitingQueue, 1, Len(waitingQueue) - 1)
                 /\ inUse' = (inUse \ {db}) \cup {db}
                 /\ held' = [held EXCEPT ![c] = 0, ![w] = db]
                 /\ ticket' = [ticket EXCEPT ![w] = 0]
                 /\ handed' = handed + 1
                 /\ UNCHANGED pool
            ELSE /\ inUse' = inUse \ {db}
                 /\ pool' = Append(pool, db)
                 /\ held' = [held EXCEPT ![c] = 0]
                 /\ UNCHANGED <<waitingQueue, ticket, handed>>
       ELSE /\ held' = [held EXCEPT ![c] = 0]
            /\ UNCHANGED <<pool, inUse, waitingQueue, ticket, handed>>
    /\ UNCHANGED <<created, acquires>>
    /\ UNCHANGED notPool

\* release(db) called by c, the holder of db
release(c) ==
    /\ held[c] # 0
    /\ LET db == held[c] IN
       IF db \in inUse
       THEN IF Len(waitingQueue) > 0
            THEN LET w == Head(waitingQueue) IN
                 /\ waitingQueue' = Tail(waitingQueue)
                 /\ inUse' = (inUse \ {db}) \cup {db}
                 /\ held' = [held EXCEPT ![c] = 0, ![w] = db]
                 /\ ticket' = [ticket EXCEPT ![w] = 0]
                 /\ handed' = handed + 1
                 /\ UNCHANGED pool
            ELSE /\ inUse' = inUse \ {db}
                 /\ pool' = Append(pool, db)
                 /\ held' = [held EXCEPT ![c] = 0]
                 /\ UNCHANGED <<waitingQueue, ticket, handed>>
       ELSE /\ held' = [held EXCEPT ![c] = 0]
            /\ UNCHANGED <<pool, inUse, waitingQueue, ticket, handed>>
    /\ UNCHANGED <<created, acquires>>
    /\ UNCHANGED notPool

Acquire == \E c \in Clients : acquire(c)
Release == \E c \in Clients : release(c)

\* ------------------------------------------------------------------ postgres transaction
\* the clients pool.connect() can give: those nobody has checked out
FreeClients == (1..PgPoolSize) \ (checkedOut \cup {tclient})

\* transaction(callback): const client = await this.pool.connect()
TransactionConnect ==
    /\ tpc \in {"idle", "released"}
    /\ \E client \in (1..PgPoolSize) \ checkedOut :
          tclient' = client
    /\ tpc' = "connected"
    /\ tstmts' = <<>>
    /\ tresult' = "none"
    /\ UNCHANGED checkedOut
    /\ UNCHANGED notTransaction

\* await client.query('BEGIN')
Begin ==
    /\ tpc = "connected"
    /\ tpc' = "callback"
    /\ UNCHANGED <<tclient, tstmts, tresult, checkedOut>>
    /\ UNCHANGED notTransaction

\* a statement of callback(this): an adapter method takes a client from the
\* pool (_query, query: pool.connect(); update, delete: pool.query), runs
\* the statement on it and releases it
CallbackStatement ==
    /\ tpc = "callback"
    /\ Len(tstmts) < MaxStatements
    /\ \E client \in FreeClients :
          tstmts' = Append(tstmts, [client |-> client, inBlock |-> client = tclient])
    /\ UNCHANGED <<tpc, tclient, tresult, checkedOut>>
    /\ UNCHANGED notTransaction

\* the callback ends: COMMIT when it resolved, ROLLBACK when it rejected;
\* finally client.release()
CallbackEnds(word) ==
    /\ tpc = "callback"
    /\ tresult' = word
    /\ tpc' = "released"
    /\ UNCHANGED <<tclient, tstmts, checkedOut>>
    /\ UNCHANGED notTransaction

Commit == CallbackEnds("COMMIT")
Rollback == CallbackEnds("ROLLBACK")

\* another request takes a client from the pool (_query: pool.connect())
OtherConnect ==
    /\ \E client \in (1..PgPoolSize) \ checkedOut :
          /\ tpc \in {"connected", "callback"} => client # tclient
          /\ checkedOut' = checkedOut \cup {client}
    /\ UNCHANGED <<tpc, tclient, tstmts, tresult>>
    /\ UNCHANGED notTransaction

\* another request gives its client back (_query: finally client.release())
OtherRelease ==
    /\ \E client \in checkedOut : checkedOut' = checkedOut \ {client}
    /\ UNCHANGED <<tpc, tclient, tstmts, tresult>>
    /\ UNCHANGED notTransaction

\* ------------------------------------------------------------------ specification
\* no generated validator is running
ValidatorOff ==
    /\ vschema = [name |-> <<>>, fields |-> <<>>]
    /\ vdata = [type |-> "undefined"]
    /\ vi = 0
    /\ vresult = <<>>
    /\ vpc = "off"
    /\ verr = [kind |-> "none"]

\* no route is registered
RouteOff ==
    /\ pipeline = <<>>
    /\ reqs = <<>>
    /\ activeRequests = 0

\* no statement template is in use
QueryOff ==
    /\ qtable = <<>>
    /\ qcolumns = <<>>
    /\ qadapter = "none"
    /\ qop = "none"
    /\ qsql = <<>>

\* no list query is running
ListOff ==
    /\ fcall = [api |-> "none"]
    /\ fpc = "off"
    /\ ferr = [kind |-> "none"]
    /\ fargs = <<>>
    /\ fsql = <<>>

\* no sugar object exists
SugarOff ==
    /\ glog = <<>>
    /\ gcall = [method |-> "none"]
    /\ gout = "off"

\* compile is not in use
CompileOff ==
    /\ cpc = "off"
    /\ cfs = [outDir |-> FALSE, server |-> 0, types |-> 0]
    /\ cbefore = [outDir |-> FALSE, server |-> 0, types |-> 0]
    /\ ccalls = 0
    /\ cerr = "none"

\* no aot_db helper is in use
AotOff ==
    /\ aop = "off"
    /\ acolumns = <<>>
    /\ aadapter = "none"
    /\ abound = [values |-> <<>>]
    /\ atemplate = <<>>

\* the dev supervisor is not running
DevOff ==
    /\ serverProcess = 0
    /\ children = <<>>
    /\ rebuildDebounceTimer = FALSE
    /\ rebuilds = <<[pc |-> "off"]>>

\* no connection pool exists
PoolOff ==
    /\ pool = <<>>
    /\ inUse = {}
    /\ waitingQueue = <<>>
    /\ created = 0
    /\ held = <<>>
    /\ ticket = <<>>
    /\ acquires = 0
    /\ handed = 0

\* no transaction is in use
TransactionOff ==
    /\ tpc = "off"
    /\ tclient = 0
    /\ tstmts = <<>>
    /\ tresult = "none"
    /\ checkedOut = {}

\* no parse call is running
ParserOff ==
    /\ tokens = <<>>
    /\ pos = 0
    /\ ast = EmptyAST
    /\ ppc = "off"
    /\ perr = NoPErr
    /\ skipped = <<>>

\* no lex call is running
LexerOff ==
    /\ lx = LexStart
    /\ lpc = "off"

\* no source-utils call has been made
SourceOff ==
    /\ sop = "none"
    /\ sarg = 0
    /\ sres = [err |-> "none"]

\* no resolveModules call is running
ResolverOff ==
    /\ fsys = FileSystem(<<>>, 0, 0, "missing")
    /\ loading = {}
    /\ resolvedASTs = <<>>
    /\ stack = <<>>
    /\ rpc = "off"
    /\ rerr = NoError
    /\ mergedAST = EmptyAST
    /\ reads = [p \in Paths |-> 0]

InitResolve ==
    /\ \E e \in EdgeLists, v \in 0..2, b \in 0..NumFiles, kind \in {"missing", "bad"} :
          /\ (b = 0 => kind = "missing")
          /\ fsys = FileSystem(e, v, b, kind)
    /\ loading = {}
    /\ resolvedASTs = <<>>
    /\ stack = <<>>
    /\ rpc = "idle"
    /\ rerr = NoError
    /\ mergedAST = EmptyAST
    /\ reads = [p \in Paths |-> 0]
    /\ src = <<>>
    /\ SourceOff
    /\ LexerOff
    /\ ParserOff
    /\ ValidatorOff
    /\ RouteOff
    /\ QueryOff
    /\ ListOff
    /\ SugarOff
    /\ CompileOff
    /\ AotOff
    /\ DevOff
    /\ PoolOff
    /\ TransactionOff

NextResolve ==
    \/ ResolveStart
    \/ ImportNext
    \/ ModuleReturn
    \/ Unwind
    \/ ResolveRaise
    \/ Merge
    \/ ResolveAgain

SpecResolve == InitResolve /\ [][NextResolve]_vars

InitSource ==
    /\ src \in ExtractSources \cup LocateSources
    /\ sop = "none"
    /\ sarg = 0
    /\ sres = [err |-> "none"]
    /\ ResolverOff
    /\ LexerOff
    /\ ParserOff
    /\ ValidatorOff
    /\ RouteOff
    /\ QueryOff
    /\ ListOff
    /\ SugarOff
    /\ CompileOff
    /\ AotOff
    /\ DevOff
    /\ PoolOff
    /\ TransactionOff

NextSource ==
    \/ ExtractRawBlock
    \/ LocateBraceInSource

SpecSource == InitSource /\ [][NextSource]_vars

InitLex ==
    /\ src \in LexSources
    /\ lx = LexStart
    /\ lpc = "scan"
    /\ SourceOff
    /\ ResolverOff
    /\ ParserOff
    /\ ValidatorOff
    /\ RouteOff
    /\ QueryOff
    /\ ListOff
    /\ SugarOff
    /\ CompileOff
    /\ AotOff
    /\ DevOff
    /\ PoolOff
    /\ TransactionOff

NextLex ==
    \/ LexSpace
    \/ LexLineComment
    \/ LexBlockComment
    \/ LexFatArrow
    \/ LexSingle
    \/ LexString
    \/ LexWord
    \/ LexNumber
    \/ LexSkip
    \/ LexReturn

SpecLex == InitLex /\ [][NextLex]_vars

InitParse ==
    /\ src = <<>>
    /\ tokens = <<>>
    /\ pos = 0
    /\ ast = EmptyAST
    /\ ppc = "start"
    /\ perr = NoPErr
    /\ skipped = <<>>
    /\ SourceOff
    /\ LexerOff
    /\ ResolverOff
    /\ ValidatorOff
    /\ RouteOff
    /\ QueryOff
    /\ ListOff
    /\ SugarOff
    /\ CompileOff
    /\ AotOff
    /\ DevOff
    /\ PoolOff
    /\ TransactionOff

NextParse ==
    \/ ParseStart
    \/ ParseImport
    \/ ParseData
    \/ ParseDo
    \/ ParseRoute
    \/ ParseMigration
    \/ ParseSkip
    \/ ParseReturn

SpecParse == InitParse /\ [][NextParse]_vars

\* parse is synchronous code: while a step is possible, one is taken
FairSpecParse == SpecParse /\ WF_vars(NextParse)

InitValidate ==
    /\ vschema = [name |-> <<>>, fields |-> <<>>]
    /\ vdata = Undef
    /\ vi = 0
    /\ vresult = <<>>
    /\ vpc = "idle"
    /\ verr = [kind |-> "none"]
    /\ src = <<>>
    /\ SourceOff
    /\ LexerOff
    /\ ResolverOff
    /\ ParserOff
    /\ RouteOff
    /\ QueryOff
    /\ ListOff
    /\ SugarOff
    /\ CompileOff
    /\ AotOff
    /\ DevOff
    /\ PoolOff
    /\ TransactionOff

NextValidate ==
    \/ ValidateCall
    \/ ValidateField
    \/ ValidateReturn

SpecValidate == InitValidate /\ [][NextValidate]_vars

\* the validator over schemas and arguments with inherited and undeclared keys
NextValidateKeys ==
    \/ ValidateCallKeys
    \/ ValidateField
    \/ ValidateReturn

SpecValidateKeys == InitValidate /\ [][NextValidateKeys]_vars

\* for (const route of ast.routeLines): the route is registered
InitRoute ==
    /\ pipeline \in Pipelines
    /\ reqs = [r \in Requests |-> NewRequest]
    /\ activeRequests = 0
    /\ src = <<>>
    /\ SourceOff
    /\ LexerOff
    /\ ResolverOff
    /\ ParserOff
    /\ ValidatorOff
    /\ QueryOff
    /\ ListOff
    /\ SugarOff
    /\ CompileOff
    /\ AotOff
    /\ DevOff
    /\ PoolOff
    /\ TransactionOff

NextRoute ==
    \E r \in Requests :
       \/ Arrive(r)
       \/ AuthMiddleware(r)
       \/ HandlerStart(r)
       \/ StepAuth(r)
       \/ StepValidate(r)
       \/ StepAction(r)
       \/ StepsDone(r)

SpecRoute == InitRoute /\ [][NextRoute]_vars

\* The statement templates are pure functions: Init draws their arguments,
\* each action calls one of them.
InitQuery ==
    /\ qtable \in TableNames
    /\ qcolumns \in ColumnLists
    /\ qadapter \in Adapters
    /\ qop = "none"
    /\ qsql = <<>>
    /\ ResolverOff
    /\ src = <<>>
    /\ SourceOff
    /\ LexerOff
    /\ ParserOff
    /\ ValidatorOff
    /\ RouteOff
    /\ ListOff
    /\ SugarOff
    /\ CompileOff
    /\ AotOff
    /\ DevOff
    /\ PoolOff
    /\ TransactionOff

NextQuery == InsertSql \/ UpdateSql \/ DeleteSql \/ FindByIdSql

SpecQuery == InitQuery /\ [][NextQuery]_vars

InitList ==
    /\ fcall = [api |-> "none"]
    /\ fpc = "idle"
    /\ ferr = [kind |-> "none"]
    /\ fargs = <<>>
    /\ fsql = <<>>
    /\ ResolverOff
    /\ src = <<>>
    /\ SourceOff
    /\ LexerOff
    /\ ParserOff
    /\ ValidatorOff
    /\ RouteOff
    /\ QueryOff
    /\ SugarOff
    /\ CompileOff
    /\ AotOff
    /\ DevOff
    /\ PoolOff
    /\ TransactionOff

NextList ==
    \/ FindAllCall
    \/ AotFindAll
    \/ SugarAll
    \/ CoreSugarAll
    \/ AdapterFindAll
    \/ FindAllReturn

SpecList == InitList /\ [][NextList]_vars

InitSugar ==
    /\ glog = <<>>
    /\ gcall = [method |-> "none"]
    /\ gout = "none"
    /\ src = <<>>
    /\ ValidatorOff
    /\ RouteOff
    /\ QueryOff
    /\ ListOff
    /\ ParserOff
    /\ LexerOff
    /\ SourceOff
    /\ ResolverOff
    /\ CompileOff
    /\ AotOff
    /\ DevOff
    /\ PoolOff
    /\ TransactionOff

NextSugar ==
    \/ save
    \/ all
    \/ find
    \/ remove
    \/ update
    \/ query
    \/ transaction

SpecSugar == InitSugar /\ [][NextSugar]_vars

InitCompile ==
    /\ cpc = "idle"
    /\ cfs \in {[outDir |-> d, server |-> 0, types |-> 0] : d \in BOOLEAN}
    /\ cbefore = cfs
    /\ ccalls = 0
    /\ cerr = "none"
    /\ src = <<>>
    /\ ValidatorOff
    /\ RouteOff
    /\ QueryOff
    /\ ListOff
    /\ SugarOff
    /\ ParserOff
    /\ LexerOff
    /\ SourceOff
    /\ ResolverOff
    /\ AotOff
    /\ DevOff
    /\ PoolOff
    /\ TransactionOff

NextCompile ==
    \/ Compile
    \/ LoadConfig
    \/ CheckEntry
    \/ ResolveModules
    \/ Generate
    \/ MakeOutDir
    \/ WriteServer
    \/ WriteTypes

SpecCompile == InitCompile /\ [][NextCompile]_vars

InitAot ==
    /\ aop = "none"
    /\ acolumns \in ColumnLists
    /\ aadapter \in Adapters
    /\ abound = [values |-> <<>>]
    /\ atemplate = <<>>
    /\ src = <<>>
    /\ ValidatorOff
    /\ RouteOff
    /\ QueryOff
    /\ ListOff
    /\ SugarOff
    /\ CompileOff
    /\ ParserOff
    /\ LexerOff
    /\ SourceOff
    /\ ResolverOff
    /\ DevOff
    /\ PoolOff
    /\ TransactionOff

NextAot ==
    \/ AotSave
    \/ AotUpdate
    \/ AotRemove
    \/ AotFind

SpecAot == InitAot /\ [][NextAot]_vars

InitDev ==
    /\ serverProcess = 0
    /\ children = <<>>
    /\ rebuildDebounceTimer = FALSE
    /\ rebuilds = <<>>
    /\ src = <<>>
    /\ ValidatorOff
    /\ RouteOff
    /\ QueryOff
    /\ ListOff
    /\ SugarOff
    /\ CompileOff
    /\ AotOff
    /\ ParserOff
    /\ LexerOff
    /\ SourceOff
    /\ ResolverOff
    /\ PoolOff
    /\ TransactionOff

NextDev ==
    \/ FileChange
    \/ TimerFires
    \/ CompileFailed
    \/ CompileDone
    \/ ChildExit
    \/ KillTimeout

SpecDev == InitDev /\ [][NextDev]_vars

InitPool ==
    /\ pool = <<>>
    /\ inUse = {}
    /\ waitingQueue = <<>>
    /\ created = 0
    /\ held = [c \in Clients |-> 0]
    /\ ticket = [c \in Clients |-> 0]
    /\ acquires = 0
    /\ handed = 0
    /\ src = <<>>
    /\ ValidatorOff
    /\ RouteOff
    /\ QueryOff
    /\ ListOff
    /\ SugarOff
    /\ CompileOff
    /\ AotOff
    /\ DevOff
    /\ ParserOff
    /\ LexerOff
    /\ SourceOff
    /\ ResolverOff
    /\ TransactionOff

NextPool ==
    \/ Acquire
    \/ Release

SpecPool == InitPool /\ [][NextPool]_vars

InitTransaction ==
    /\ tpc = "idle"
    /\ tclient = 0
    /\ tstmts = <<>>
    /\ tresult = "none"
    /\ checkedOut = {}
    /\ src = <<>>
    /\ ValidatorOff
    /\ RouteOff
    /\ QueryOff
    /\ ListOff
    /\ SugarOff
    /\ CompileOff
    /\ AotOff
    /\ DevOff
    /\ PoolOff
    /\ ParserOff
    /\ LexerOff
    /\ SourceOff
    /\ ResolverOff

NextTransaction ==
    \/ TransactionConnect
    \/ Begin
    \/ CallbackStatement
    \/ Commit
    \/ Rollback
    \/ OtherConnect
    \/ OtherRelease

SpecTransaction == InitTransaction /\ [][NextTransaction]_vars

\* ------------------------------------------------------------------ import graph
\* the import graph: a file that exists and parses has an edge to each path
\* it imports
Parses(p) == fsys[p].status = "ok"
Exists(p) == fsys[p].status # "missing"
Succ(p) == IF Parses(p) THEN {fsys[p].ast.imports[i].path : i \in DOMAIN fsys[p].ast.imports}
           ELSE {}

RECURSIVE Closure(_)
Closure(S) ==
    LET T == S \cup UNION {Succ(p) : p \in S} IN
    IF T = S THEN S ELSE Closure(T)

\* the paths reachable from the entry, and those of them that are files
ReachPaths == Closure({Entry})
Reach == {p \in ReachPaths : Exists(p)}
HasCycle == \E p \in ReachPaths : p \in Closure(Succ(p))
AllReachableOk == \A p \in ReachPaths : Parses(p)

Finished == rpc \in {"done", "failed"}

\* depth-first pre-order from the entry: a file before the files it imports,
\* imports in declaration order
RECURSIVE Visit(_, _), VisitAll(_, _)
Visit(order, p) ==
    IF p \in Range(order) THEN order
    ELSE VisitAll(Append(order, p), fsys[p].ast.imports)
VisitAll(order, imps) ==
    IF imps = <<>> THEN order
    ELSE VisitAll(Visit(order, Head(imps).path), Tail(imps))

PreOrder == Visit(<<>>, Entry)
PosIn(order, p) == CHOOSE i \in DOMAIN order : order[i] = p

DeclList(kind, a) ==
    IF kind = "data" THEN a.dataBlocks
    ELSE IF kind = "do" THEN a.doBlocks
    ELSE a.routeLines
Kinds == {"data", "do", "route"}

\* ------------------------------------------------------------------ claims C1..C4

\* C1 as stated: a circular-import error is raised if and only if the import
\* graph reachable from the entry has a cycle, and for an acyclic graph no such
\* error is raised and each reachable file is read and parsed exactly once.
C1_CircularIffCycle ==
    Finished =>
        /\ (rerr.kind = "circular") <=> HasCycle
        /\ ~HasCycle => \A p \in Reach : reads[p] = 1

\* C1 amended: a circular-import error is raised only if the reachable import
\* graph has a cycle, and no file is read more than once; when every reachable
\* path exists and parses, the error is raised if and only if there is a
\* cycle, and for an acyclic graph resolution succeeds with each reachable
\* file read and parsed exactly once.
C1_CircularIffCycleWhenFilesOk ==
    /\ \A p \in Paths : reads[p] <= 1
    /\ Finished =>
        /\ rerr.kind = "circular" => HasCycle
        /\ AllReachableOk =>
            /\ HasCycle => rpc = "failed" /\ rerr.kind = "circular"
            /\ ~HasCycle => /\ rpc = "done"
                            /\ rerr.kind = "none"
                            /\ \A p \in Paths : reads[p] = (IF p \in Reach THEN 1 ELSE 0)

\* a cycle that does not pass through the entry has been reported
C1_Witness ==
    /\ rpc = "failed"
    /\ rerr.kind = "circular"
    /\ AllReachableOk
    /\ Entry \notin rerr.names

\* C2: when A imports B and B imports A, resolveModules started at A fails
\* with a circular-import error that names both A and B.
C2_CycleNamesBothFiles ==
    \A b \in Paths \ {Entry} :
        ( /\ rpc = "failed"
          /\ Parses(Entry) /\ Parses(b)
          /\ fsys[Entry].ast.imports = <<[path |-> b]>>
          /\ fsys[b].ast.imports = <<[path |-> Entry]>> )
        => /\ rerr.kind = "circular"
           /\ {Entry, b} \subseteq rerr.names

C4_FirstSeenWins ==
    rpc = "done" =>
        \A kind \in Kinds :
            LET L == DeclList(kind, mergedAST)
                At(b) == <<PosIn(PreOrder, b.origin[1]), b.origin[2]>>
                Before(x, y) == x[1] < y[1] \/ (x[1] = y[1] /\ x[2] < y[2])
            IN
            /\ \A i \in DOMAIN L :
                  \A p \in Reach : \A d \in Range(DeclList(kind, fsys[p].ast)) :
                      KeyOf(kind, d) = KeyOf(kind, L[i]) =>
                          d = L[i] \/ Before(At(L[i]), At(d))
            /\ \A i, j \in DOMAIN L : i < j => Before(At(L[i]), At(L[j]))

\* the entry and an imported file declare the same schema name, and so do two
\* imported files for a name the entry does not declare
C4_Witness ==
    /\ rpc = "done"
    /\ \E p \in Reach \ {Entry} :
          \E d \in Range(fsys[p].ast.doBlocks), c \in Range(fsys[Entry].ast.doBlocks) :
              d.name = c.name
    /\ Len(PreOrder) = 3
    /\ Len(mergedAST.routeLines) = 2

\* ------------------------------------------------------------------ quote-aware depth
\* The scanning state before offset j of a block opened at offset open, read
\* one character at a time: outside quotes ("code"), inside a region quoted
\* by q ("quoted"), or after a backslash inside it ("escaped").
RECURSIVE ScanState(_, _, _)
ScanState(s, open, j) ==
    IF j <= open + 1 THEN [mode |-> "code", q |-> "", depth |-> 1]
    ELSE LET st == ScanState(s, open, j - 1)
             c == CharAt(s, j - 1)
         IN
         IF st.mode = "escaped" THEN [st EXCEPT !.mode = "quoted"]
         ELSE IF st.mode = "quoted" THEN
             IF c = "\\" THEN [st EXCEPT !.mode = "escaped"]
             ELSE IF c = st.q THEN [st EXCEPT !.mode = "code", !.q = ""]
             ELSE st
         ELSE IF c \in QuoteChars THEN [st EXCEPT !.mode = "quoted", !.q = c]
         ELSE IF c = "{" THEN [st EXCEPT !.depth = @ + 1]
         ELSE IF c = "}" THEN [st EXCEPT !.depth = @ - 1]
         ELSE st

\* the offsets of the closing braces, outside quotes, that take the depth to 0
ClosingOffsets(s, open) ==
    {j \in (open + 1)..(Len(s) - 1) :
        /\ CharAt(s, j) = "}"
        /\ ScanState(s, open, j).mode = "code"
        /\ ScanState(s, open, j).depth = 1}

Min(S) == CHOOSE x \in S : \A y \in S : x <= y
Max(S) == CHOOSE x \in S : \A y \in S : x >= y

\* t without its leading and trailing whitespace
Trimmed(t) ==
    LET N == {k \in DOMAIN t : ~IsSpace(t[k])} IN
    IF N = {} THEN <<>> ELSE SubSeq(t, Min(N), Max(N))

\* the 1-based line of offset i
LineOf(s, i) == 1 + Cardinality({k \in 0..(i - 1) : CharAt(s, k) = "\n"})

\* ------------------------------------------------------------------ claims C7..C9

\* C7: when extractRawBlock returns, the body is the trimmed text between the
\* opening brace and the closing brace at which the quote-aware depth first
\* returns to zero, and endIndex is the offset just past that brace; braces
\* inside quoted regions do not count and quoted text is kept verbatim.
C7_BodyIsQuoteAwareSpan ==
    (sop = "extract" /\ sres.err = "none") =>
        LET C == ClosingOffsets(src, sarg) IN
        /\ C # {}
        /\ sres.endIndex = Min(C) + 1
        /\ sres.body = Trimmed(SubSeq(src, sarg + 2, Min(C)))

\* a body with a brace inside a quoted region and whitespace to trim
C7_Witness ==
    /\ sop = "extract"
    /\ sres.err = "none"
    /\ \E j \in (sarg + 1)..(sres.endIndex - 2) :
          /\ CharAt(src, j) \in {"{", "}"}
          /\ ScanState(src, sarg, j).mode = "quoted"
    /\ IsSpace(CharAt(src, sarg + 1))

\* C8: locateBraceInSource fails when the requested line is never reached or
\* holds no opening brace; when it returns, the offset is that of the first
\* opening brace on the requested line.
C8_LocateOnRequestedLine ==
    sop = "locate" =>
        LET B == {i \in 0..(Len(src) - 1) :
                     CharAt(src, i) = "{" /\ LineOf(src, i) = sarg} IN
        /\ B = {} => sres.err # "none"
        /\ sres.err = "none" => B # {} /\ sres.offset = Min(B)

\* C9: extractRawBlock raises the unbalanced-delimiters error if and only if
\* the source ends before the quote-aware depth returns to zero, and then
\* returns no body.
C9_UnbalancedIffNoClosingBrace ==
    sop = "extract" =>
        /\ (sres.err = "Unbalanced braces") <=> (ClosingOffsets(src, sarg) = {})
        /\ sres.err # "none" => DOMAIN sres = {"err"}

\* the error is raised for a text whose only closing brace is inside a quoted
\* region that is never closed
C9_Witness ==
    /\ sop = "extract"
    /\ sres.err = "Unbalanced braces"
    /\ \E j \in (sarg + 1)..(Len(src) - 1) :
          /\ CharAt(src, j) = "}"
          /\ ScanState(src, sarg, j).mode = "quoted"
    /\ ScanState(src, sarg, Len(src)).mode = "quoted"

\* ------------------------------------------------------------------ claim C6
\* the characters of src that can begin a token
TokenStarts(s) ==
    {k \in 0..(Len(s) - 1) :
        \/ CharAt(s, k) \in Letters \cup Digits \cup {"\""}
        \/ SingleType(CharAt(s, k)) # "none"
        \/ CharAt(s, k) = "=" /\ CharAt(s, k + 1) = ">"}

\* C6: lex is total and terminates: while scanning, a step is always possible,
\* every iteration of the scanning loop consumes at least one character and
\* the cursor stays within two characters of the end; an unrecognized
\* character produces no token; the returned list holds exactly one EOF token,
\* its last element.
C6_LexTotal ==
    /\ lpc = "scan" => (ENABLED NextLex) /\ lx.i <= Len(src) + 2
    /\ (lpc = "scan" /\ lx.i < Len(src)) =>
          LET n == LexIter(src, lx) IN
          /\ n.i > lx.i
          /\ lx.i \notin TokenStarts(src) => n.tokens = lx.tokens
    /\ lpc = "done" =>
          /\ Len(lx.tokens) >= 1
          /\ \A k \in DOMAIN lx.tokens : (lx.tokens[k].type = "EOF") <=> (k = Len(lx.tokens))
          /\ TokenStarts(src) = {} => Len(lx.tokens) = 1
          /\ lx.tokens = lex(src)

\* lex has returned for a text with an unrecognized character and a block
\* comment that is never closed
C6_Witness ==
    /\ lpc = "done"
    /\ lx.i = Len(src) + 2
    /\ \E k \in 0..(Len(src) - 1) : CharAt(src, k) = "\\"
    /\ Len(lx.tokens) = 1

\* ------------------------------------------------------------------ claims C5, C10
\* C5: parse(source) terminates for every source text: every run of parse
\* reaches the point where it has returned a tree or raised an error, also
\* when the brace depth counted over the tokens of a do body never comes
\* back to zero before the end of the token list.
C5_ParseTerminates == <>(ppc \in {"done", "error"})

\* the operation names a migration entry may carry
MigrationOps == {WAddColumn, WDropColumn, WCreateTable, WDropTable}

\* C10: parse never passes over a token that the grammar does not expect
\* inside a construct and goes on: nothing but a parameter name is stepped
\* over in a do parameter list, no token is stepped over in a route block,
\* and no migration entry with an unknown operation name enters the tree.
C10_NoSkipInsideConstruct ==
    /\ \A k \in DOMAIN skipped :
          skipped[k].in = "doParams" /\ skipped[k].type = "IDENT"
    /\ \A k \in DOMAIN ast.migrations :
          \A j \in DOMAIN ast.migrations[k].operations :
             ast.migrations[k].operations[j].op \in MigrationOps

\* ------------------------------------------------------------------ claim C11
\* where a left-to-right reading of the text s from offset i ends: inside a
\* string literal ("string") or outside one; mode is "code", "line" (comment
\* to the end of the line), "block" (comment to the closing mark) or "string"
RECURSIVE ReadMode(_, _, _)
ReadMode(s, i, mode) ==
    IF ~(i < Len(s)) THEN mode
    ELSE LET c == CharAt(s, i)
             d == CharAt(s, i + 1)
         IN
         CASE mode = "code" ->
                 IF c = "/" /\ d = "/" THEN ReadMode(s, i + 2, "line")
                 ELSE IF c = "/" /\ d = "*" THEN ReadMode(s, i + 2, "block")
                 ELSE IF c = "\"" THEN ReadMode(s, i + 1, "string")
                 ELSE ReadMode(s, i + 1, "code")
           [] mode = "line" ->
                 IF c = "\n" THEN ReadMode(s, i + 1, "code") ELSE ReadMode(s, i + 1, "line")
           [] mode = "block" ->
                 IF c = "*" /\ d = "/" THEN ReadMode(s, i + 2, "code")
                 ELSE ReadMode(s, i + 1, "block")
           [] OTHER ->
                 IF c = "\\" THEN ReadMode(s, i + 2, "string")
                 ELSE IF c = "\"" THEN ReadMode(s, i + 1, "code")
                 ELSE ReadMode(s, i + 1, "string")

\* the text has a string literal whose closing quote is missing
UnterminatedString(s) == ReadMode(s, 0, "code") = "string"

\* C11: a source with a string literal whose closing quote is missing before
\* the end of input is never lexed and parsed successfully: parse does not
\* return a tree for it.
C11_UnterminatedStringRejected == ppc = "done" => ~UnterminatedString(src)

\* ------------------------------------------------------------------ claims C12, C13
\* the value v meets the type, bounds and enum constraints of field f
Satisfies(f, v) ==
    IF v \in {Undef, JNull} THEN f.optional
    ELSE CASE FieldBranch(f) = "string" ->
                 /\ v.type = "string"
                 /\ HasArg(f, WMin) => Len(v.val) >= ArgNumber(f, WMin)
                 /\ HasArg(f, WMax) => Len(v.val) <= ArgNumber(f, WMax)
                 /\ HasArg(f, WEnum) => \E k \in DOMAIN f.args[WEnum].list :
                                           f.args[WEnum].list[k] = v.val
           [] FieldBranch(f) = "number" ->
                 /\ v.type = "number"
                 /\ HasArg(f, WMin) => v.val >= ArgNumber(f, WMin)
                 /\ HasArg(f, WMax) => v.val <= ArgNumber(f, WMax)
           [] FieldBranch(f) = "boolean" -> v.type = "boolean"
           [] OTHER -> TRUE

\* the call of the validator on a record is over
ValidateOver == vpc \in {"returned", "thrown"} /\ vdata.type = "object"

\* field k of the schema is required and undefined or null in the argument
MissingRequired(k) ==
    /\ ~vschema.fields[k].optional
    /\ Get(vdata, vschema.fields[k].name) \in {Undef, JNull}

\* the record satisfies every field: the validator returns a record that
\* has the input's value in every non-optional field
UnchangedWhenSatisfied ==
    (\A k \in DOMAIN vschema.fields :
        Satisfies(vschema.fields[k], Get(vdata, vschema.fields[k].name)))
    => /\ vpc = "returned"
       /\ \A k \in DOMAIN vschema.fields :
             ~vschema.fields[k].optional =>
                /\ vschema.fields[k].name \in DOMAIN vresult
                /\ vresult[vschema.fields[k].name] = Get(vdata, vschema.fields[k].name)

\* C12 as stated: whenever a non-optional field is undefined or null in the
\* input, the validator fails with the status-400 missing-required-field
\* error naming that field; a record that satisfies every field comes back
\* with every non-optional field unchanged.
C12_MissingRequiredAlwaysNamed ==
    ValidateOver =>
       /\ \A k \in DOMAIN vschema.fields :
             MissingRequired(k) =>
                /\ vpc = "thrown"
                /\ verr.status = 400
                /\ verr.kind = "missing required field"
                /\ verr.field = vschema.fields[k].name
       /\ UnchangedWhenSatisfied

\* C12 amended: whenever a non-optional field is undefined or null in the
\* input, the validator fails with status 400, and with the
\* missing-required-field error naming that field when every field declared
\* before it satisfies its constraints; a record that satisfies every field
\* comes back with every non-optional field unchanged.
C12_MissingRequiredFails ==
    ValidateOver =>
       /\ \A k \in DOMAIN vschema.fields :
             MissingRequired(k) =>
                /\ vpc = "thrown"
                /\ verr.status = 400
                /\ (\A j \in 1..(k - 1) :
                       Satisfies(vschema.fields[j], Get(vdata, vschema.fields[j].name)))
                   => /\ verr.kind = "missing required field"
                      /\ verr.field = vschema.fields[k].name
       /\ UnchangedWhenSatisfied

\* a required field that follows a satisfied field is missing and is reported
C12_Witness ==
    /\ vpc = "thrown"
    /\ vi = 2
    /\ MissingRequired(2)
    /\ verr.kind = "missing required field"

\* the checks of a string-like field that the value v fails, by their place
\* in the order: 1 is a string, 2 length >= min, 3 length <= max, 4 member
\* of the enum list
FailedStringChecks(f, v) ==
    {n \in 1..4 :
        \/ n = 1 /\ v.type # "string"
        \/ n = 2 /\ v.type = "string" /\ HasArg(f, WMin) /\ Len(v.val) < ArgNumber(f, WMin)
        \/ n = 3 /\ v.type = "string" /\ HasArg(f, WMax) /\ Len(v.val) > ArgNumber(f, WMax)
        \/ n = 4 /\ v.type = "string" /\ HasArg(f, WEnum)
                 /\ v.val \notin Range(f.args[WEnum].list)}

StringCheckNames == <<"must be a string", "too short", "too long", "invalid enum">>

\* the validator has a complaint about the value v of field f
Violates(f, v) ==
    IF v \in {Undef, JNull} THEN ~f.optional
    ELSE CASE FieldBranch(f) = "string" -> FailedStringChecks(f, v) # {}
           [] FieldBranch(f) = "number" ->
                 \/ ~ToNumber(v).finite
                 \/ HasArg(f, WMin) /\ ToNumber(v).val < ArgNumber(f, WMin)
                 \/ HasArg(f, WMax) /\ ToNumber(v).val > ArgNumber(f, WMax)
           [] OTHER -> FALSE

ViolatingFields ==
    {k \in DOMAIN vschema.fields :
        Violates(vschema.fields[k], Get(vdata, vschema.fields[k].name))}

\* the schema and the inputs of the example
UserSchema ==
    [name |-> <<"U", "s", "e", "r">>,
     fields |-> <<CHOOSE f \in FieldPool : f.name = <<"u", "s", "e", "r", "n", "a", "m", "e">>,
                  CHOOSE f \in FieldPool : f.name = <<"r", "o", "l", "e">>>>]
UserInput(username, role) == JObj((<<"u", "s", "e", "r", "n", "a", "m", "e">> :> username) @@ (<<"r", "o", "l", "e">> :> role))

\* C13: the validator checks the fields in declaration order and fails on
\* the first violating field; for a string-like field the error is that of
\* the first failed check in the order string, min, max, enum; the four
\* example inputs for User give too short, invalid enum, must be a string
\* and the record itself.
C13_FirstViolationInOrder ==
    ValidateOver =>
       /\ IF ViolatingFields = {}
          THEN /\ vpc = "returned"
               /\ DOMAIN vresult = FieldNames(vschema)
          ELSE LET k == Min(ViolatingFields)
                   f == vschema.fields[k]
                   v == Get(vdata, f.name)
               IN /\ vpc = "thrown"
                  /\ verr.status = 400
                  /\ verr.field = f.name
                  /\ (FieldBranch(f) = "string" /\ v \notin {Undef, JNull})
                     => verr.kind = StringCheckNames[Min(FailedStringChecks(f, v))]
       /\ vschema = UserSchema =>
             /\ vdata = UserInput(JStr(<<"a", "b">>), JStr(<<"a", "d", "m", "i", "n">>))
                => vpc = "thrown" /\ verr.kind = "too short"
             /\ vdata = UserInput(JStr(<<"a", "b", "c">>), JStr(<<"o", "w", "n", "e", "r">>))
                => vpc = "thrown" /\ verr.kind = "invalid enum"
             /\ vdata = UserInput(JNum(12345), JStr(<<"a", "d", "m", "i", "n">>))
                => vpc = "thrown" /\ verr.kind = "must be a string"
             /\ vdata = UserInput(JStr(<<"a", "b", "c">>), JStr(<<"a", "d", "m", "i", "n">>))
                => vpc = "returned" /\ vresult = vdata.props

\* a value that is too long and not in the enum list is reported as too long
C13_Witness ==
    /\ vpc = "thrown"
    /\ vi = 2
    /\ LET f == vschema.fields[vi]
           v == Get(vdata, f.name)
       IN /\ FieldBranch(f) = "string"
          /\ v \notin {Undef, JNull}
          /\ {3, 4} \subseteq FailedStringChecks(f, v)
          /\ verr.kind = "too long"

\* ------------------------------------------------------------------ claims C14..C17
\* the request has been answered with exactly the status st
AnsweredWith(q, st) == q.pc = "done" /\ Len(q.responses) = 1 /\ q.responses[1].status = st

\* C14: on a route whose pipeline has an auth step at whatever position, a
\* request without a valid bearer token is answered 401 and neither a
\* validator nor an action of the pipeline is invoked for it.
C14_AuthBeforeEveryStep ==
    \A r \in Requests :
       ( /\ \E k \in DOMAIN pipeline : pipeline[k].kind = "auth"
         /\ reqs[r].pc # "new"
         /\ reqs[r].cred # "valid token" )
       => /\ reqs[r].calls = <<>>
          /\ reqs[r].pc \in {"auth", "done"}
          /\ reqs[r].pc = "done" => AnsweredWith(reqs[r], 401)

\* a request without a token is refused on a route whose auth step is not
\* the first step of the pipeline
C14_Witness ==
    /\ Len(pipeline) = 2
    /\ pipeline[1].kind = "validate"
    /\ pipeline[2].kind = "auth"
    /\ \E r \in Requests : reqs[r].cred = "none" /\ AnsweredWith(reqs[r], 401)

\* the steps of one request run in pipeline order, each at most once, none
\* left out, and each gets the context the steps before it left
InOrderAndThreaded(q) ==
    /\ \A k \in DOMAIN q.calls :
          /\ pipeline[q.calls[k].step].kind \in {"validate", "action"}
          /\ \A j \in 1..(q.calls[k].step - 1) :
                pipeline[j].kind = "auth" \/ \E n \in 1..(k - 1) : q.calls[n].step = j
          /\ \A n \in 1..(k - 1) : q.calls[n].step < q.calls[k].step
    /\ \A k \in DOMAIN q.calls :
          q.calls[k].input =
             IF k = 1 THEN [kind |-> "request"]
             ELSE LET prev == q.calls[k - 1] IN
                  IF pipeline[prev.step].kind = "validate" THEN prev.output
                  ELSE IF prev.output.kind # "undefined" THEN prev.output
                  ELSE prev.input

\* the body of a success response: the result of the last step when that is
\* an action whose result is one of the kinds in valueKinds, the default
\* success payload otherwise
SuccessBody(q, valueKinds) ==
    (q.pc = "done" /\ Len(q.responses) = 1 /\ q.responses[1].status = 200) =>
       /\ \A j \in DOMAIN pipeline :
             pipeline[j].kind = "auth" \/ \E n \in DOMAIN q.calls : q.calls[n].step = j
       /\ q.responses[1].body =
             IF /\ Len(pipeline) > 0
                /\ pipeline[Len(pipeline)].kind = "action"
                /\ q.calls[Len(q.calls)].output.kind \in valueKinds
             THEN q.calls[Len(q.calls)].output
             ELSE [success |-> TRUE]

\* C15 as stated: the validate and action steps run strictly in pipeline
\* order, each at most once; the context is threaded; the JSON response is
\* the result of the last step when that is an action returning a value
\* (anything but undefined), and the default success payload otherwise.
C15_ResponseIsLastValue ==
    \A r \in Requests :
       InOrderAndThreaded(reqs[r]) /\ SuccessBody(reqs[r], {"value", "null"})

\* C15 amended: as C15, but the response is the result of the last step
\* only when that is an action returning a value other than null and
\* undefined; for null and undefined it is the default success payload.
C15_ResponseIsLastNonNullValue ==
    \A r \in Requests :
       InOrderAndThreaded(reqs[r]) /\ SuccessBody(reqs[r], {"value"})

\* a validator's output reaches the action after it, whose value is the response
C15_Witness ==
    /\ Len(pipeline) = 2
    /\ \E r \in Requests :
          /\ AnsweredWith(reqs[r], 200)
          /\ Len(reqs[r].calls) = 2
          /\ reqs[r].calls[2].input = [kind |-> "sanitized", step |-> 1]
          /\ reqs[r].responses[1].body = [kind |-> "value", step |-> 2]

\* a step of the pipeline has no validator or action behind it
Unbound(step) ==
    \/ step.kind = "validate" /\ step.schema \notin validators
    \/ step.kind = "action" /\ step.name \notin actions

\* what holds of one request in every state, for C16
RaiseEndsRequest(q) ==
    /\ Len(q.responses) <= 1
    /\ q.pc = "done" <=> Len(q.responses) = 1
    /\ \A k \in DOMAIN q.calls :
          q.calls[k].output.kind = "thrown" =>
             /\ k = Len(q.calls)
             /\ AnsweredWith(q, q.calls[k].output.status)
             /\ q.i = q.calls[k].step
    /\ (q.pc = "steps" /\ q.i > 1) => ~Unbound(pipeline[q.i - 1])
    /\ (q.pc = "done" /\ q.i \in DOMAIN pipeline /\ Unbound(pipeline[q.i])) =>
          AnsweredWith(q, 500)

C17_NoActionRouteReportsError ==
    (\A k \in DOMAIN pipeline : pipeline[k].kind # "action") =>
       \A r \in Requests :
          (reqs[r].pc = "done" /\ reqs[r].i > Len(pipeline))
          => reqs[r].responses[1].status >= 500

\* ------------------------------------------------------------------ claim C18
\* the markers of a statement, in the order they stand in its text
Markers(sql) == SelectSeq(sql, LAMBDA p : p.piece \in {"?", "$"})

\* the quoted identifiers of a statement after its table, in order
ColumnIdents(sql) ==
    LET ids == SelectSeq(sql, LAMBDA p : p.piece = "ident")
    IN [i \in 1..(Len(ids) - 1) |-> ids[i + 1].name]

\* the dialect's convention: `?` only for sqlite; $1..$k in order for postgres
DialectMarkers(sql, adapter) ==
    LET ms == Markers(sql) IN
    IF adapter = "sqlite"
    THEN \A k \in DOMAIN ms : ms[k] = Mark
    ELSE \A k \in DOMAIN ms : ms[k] = Dollar(k)

HasReturning(sql) == \E k \in DOMAIN sql : sql[k] = Text(" RETURNING id")

\* what C18 says of one statement
TemplateOk(op, sql, columns, adapter) ==
    /\ DialectMarkers(sql, adapter)
    /\ op = "insert" => /\ Len(Markers(sql)) = Len(columns)
                        /\ ColumnIdents(sql) = columns
    /\ op = "update" => /\ Len(Markers(sql)) = Len(columns) + 1
                        /\ sql[Len(sql)].piece \in {"?", "$"}
    /\ op \in {"delete", "findById"} => Len(Markers(sql)) = 1
    /\ HasReturning(sql) <=> (op = "insert" /\ adapter = "postgres")

\* C18: for every table, column list (the empty one included) and dialect,
\* each of the four templates uses only the dialect's marker convention (`?`
\* for sqlite, $1..$k numbered in bind order for postgres, the id parameter
\* last in update); an insert over n columns has n markers in column order;
\* RETURNING id stands in the postgres insert and nowhere else.
C18_TemplatesFollowDialect ==
    qop # "none" => TemplateOk(qop, qsql, qcolumns, qadapter)

\* ------------------------------------------------------------------ claims C19, C20
\* the columns of the table: id and the fields of its data block
SchemaColumns == {<<"i", "d">>} \cup {ListFields[k] : k \in DOMAIN ListFields}

\* the identifiers interpolated into a list-query statement after its table
ListIdents(sql) ==
    LET ids == SelectSeq(sql, LAMBDA p : p.piece = "ident")
    IN {ids[k].name : k \in 2..Len(ids)}

\* the identifiers that stand after ORDER BY
SortIdents(sql) ==
    {sql[k].name : k \in {j \in 2..Len(sql) : sql[j - 1] = Text(" ORDER BY ")}}

\* the call's where keys and sort field are columns of the schema
ColumnsOnly(call) ==
    /\ call.where.type = "object"
    /\ \A k \in DOMAIN call.where.keys : call.where.keys[k] \in SchemaColumns
    /\ Truthy(call.orderBy) =>
          /\ call.orderBy.type \in {"object", "function"}
          /\ call.orderBy.field.type = "string"
          /\ call.orderBy.field.val \in SchemaColumns

C20_SortFieldIsColumn ==
    fcall.api \in {"sugar", "coreSugar"} =>
       /\ (Truthy(fcall.orderBy) /\ fargs # <<>>) =>
             /\ Prop(fcall.orderBy, "direction").type = "string"
             /\ toLowerCase(Prop(fcall.orderBy, "direction").val) \in ALLOWED_DIRECTIONS
             /\ Prop(fcall.orderBy, "field").type = "string"
             /\ Prop(fcall.orderBy, "field").val \in SchemaColumns
       /\ SortIdents(fsql) \subseteq SchemaColumns

\* ------------------------------------------------------------------ claim C25
\* the files of the active loadModule calls, outermost first
ImportChain == [i \in DOMAIN stack |-> stack[i].path]

\* the active calls form a chain of import statements that starts at the entry
IsChainFromEntry ==
    /\ stack # <<>> => stack[1].path = Entry
    /\ \A i \in 1..(Len(stack) - 1) :
          /\ stack[i].idx - 1 \in DOMAIN fsys[stack[i].path].ast.imports
          /\ fsys[stack[i].path].ast.imports[stack[i].idx - 1].path = stack[i + 1].path
    /\ \A i, j \in DOMAIN stack : stack[i].path = stack[j].path => i = j

\* C25: in every state of resolveModules the loading set is exactly the set
\* of files on the current import chain from the entry file to the file
\* being loaded; it is empty whenever resolveModules has returned or raised,
\* and a later call starts with an empty loading set and nothing resolved.
C25_LoadingIsImportChain ==
    /\ loading = {ImportChain[i] : i \in DOMAIN stack}
    /\ IsChainFromEntry
    /\ rpc \in {"done", "failed"} => loading = {}
    /\ rpc = "idle" => loading = {} /\ resolvedASTs = <<>>

\* an Error is on its way out through a chain of two files being loaded
C25_Witness ==
    /\ rpc = "throwing"
    /\ Len(stack) = 2
    /\ loading = {stack[1].path, stack[2].path}
    /\ stack[1].path # stack[2].path

\* ------------------------------------------------------------------ claim C26
\* the keys of the returned record are the declared names, and an optional
\* field that is undefined or null in the input is null in the record
ExactlySchemaKeys ==
    /\ DOMAIN vresult = FieldNames(vschema)
    /\ \A k \in DOMAIN vschema.fields :
          LET f == vschema.fields[k] IN
          (f.optional /\ (f.name \notin DOMAIN vdata.props \/ vdata.props[f.name] = JNull))
          => vresult[f.name] = JNull

\* C26: the record a generated validator returns has exactly the schema's
\* field names as keys: no undeclared key of the input, every declared
\* field, null for an optional field that is undefined or null in the input.
C26_ResultHasExactlySchemaKeys == vpc = "returned" => ExactlySchemaKeys

\* no undeclared key of the input is in the record, at any point of the call
NoUndeclaredKey == DOMAIN vresult \subseteq FieldNames(vschema)

\* the same for schemas that declare no field named __proto__
ExactKeysWithoutProto ==
    (vpc = "returned" /\ ProtoKey \notin FieldNames(vschema)) => ExactlySchemaKeys

\* the input is not assigned to during the call, and a call that has thrown
\* does not return
InputKeptNoReturnAfterThrow ==
    [][/\ vpc # "idle" => vdata' = vdata
       /\ vpc = "thrown" => vpc' # "returned"]_vars

\* ------------------------------------------------------------------ claims C23, C24
\* the offset of the first character of a 1-based line
LineStart(s, line) ==
    IF line = 1 THEN 0
    ELSE Min({k \in 0..Len(s) : LineOf(s, k) = line})

\* add() runs after the token's characters were advanced over: a token's
\* line and column are those of the offset just past it
EndOffset(s, tok) == LineStart(s, tok.line) + tok.column - 1

\* the index of the first token that ends after offset e, the EOF token at last
FirstTokenAfter(s, toks, e) ==
    Min({k \in 0..(Len(toks) - 1) :
            TokAt(toks, k).type = "EOF" \/ EndOffset(s, TokAt(toks, k)) > e})

\* the top-level loop is at a do keyword and this step stores its block
DoHandled ==
    /\ ppc = "top"
    /\ checkValue(tokens, pos, "KEYWORD", KwDo)
    /\ Len(ast'.doBlocks) = Len(ast.doBlocks) + 1

\* C23: when parse has handled a do block the token cursor is at the first
\* token that lies after the offset endIndex extractRawBlock returned for it.
C23_CursorAfterEndIndex ==
    [][DoHandled =>
          LET res == ParseDoBlock(src, tokens, PStart(pos)) IN
          pos' = FirstTokenAfter(src, tokens, res.endIndex)]_vars

\* the text the block's own braces enclose: from the LBRACE token that follows
\* the parameter list to the brace that closes it
OwnBody(s, lbrace) == extractRawBlock(s, EndOffset(s, lbrace) - 1)

\* C24: the body stored for a do block is the text enclosed by that block's
\* own opening brace and its matching closing brace, whatever precedes the
\* brace on its line.
C24_BodyIsOwnBlock ==
    [][DoHandled =>
          LET res == ParseDoBlock(src, tokens, PStart(pos))
              own == OwnBody(src, res.lbrace)
          IN /\ own.err = "none"
             /\ ast'.doBlocks[Len(ast'.doBlocks)].body = own.body]_vars

\* when nothing but the block's head precedes its brace on the line, the
\* stored body is the block's own
C24_OwnBlockWhenFirstBrace ==
    [][DoHandled =>
          LET res == ParseDoBlock(src, tokens, PStart(pos))
              own == OwnBody(src, res.lbrace)
              open == EndOffset(src, res.lbrace) - 1
          IN (\A k \in LineStart(src, res.lbrace.line)..(open - 1) : CharAt(src, k) # "{")
                => /\ own.err = "none"
                   /\ ast'.doBlocks[Len(ast'.doBlocks)].body = own.body]_vars

\* ------------------------------------------------------------------ claim C21
TableMethods == {"save", "all", "find", "remove", "update"}

\* C21: through the sugar object only tables of knownTables are accessed:
\* every call the adapter receives, after any sequence of sugar calls,
\* touches tables of knownTables only.
C21_OnlyKnownTablesAccessed ==
    \A k \in DOMAIN glog : glog[k].tables \subseteq knownTables

\* a table-scoped method given a table outside knownTables throws before any
\* adapter call, and one that reaches the adapter names the table it was given
C21_TableMethodsGuarded ==
    [][(gcall'.method \in TableMethods /\ gcall' # gcall) =>
          /\ gcall'.table \notin knownTables => (gout' = "thrown" /\ glog' = glog)
          /\ glog' # glog => glog' = Append(glog, [method |-> glog'[Len(glog')].method,
                                                    tables |-> {gcall'.table}])]_vars

\* ------------------------------------------------------------------ claim C22
OutputsUntouched == cfs.server = cbefore.server /\ cfs.types = cbefore.types

\* C22: whenever compile raises an error, neither output file has been
\* created or modified by that call.
C22_NoOutputOnError == cpc = "raised" => OutputsUntouched

\* no file is written before resolution and generation succeeded, and an
\* error other than a failed write of the type declarations leaves both
\* files as they were; a call that returns has written both
C22_WritesAfterGeneration ==
    /\ cpc \in {"loadConfig", "existsSync", "resolveModules", "generate", "mkdirSync",
                "writeServer"} => OutputsUntouched
    /\ (cpc = "raised" /\ cerr # "write types") => OutputsUntouched
    /\ cpc = "returned" => cfs.server = ccalls /\ cfs.types = ccalls

\* ------------------------------------------------------------------ claim C27
\* the values a helper is to bind, in the template's column order
Expected(op, columns) ==
    LET data == [i \in DOMAIN columns |-> DataProp(columns[i])] IN
    CASE op = "save" -> data
      [] op = "update" -> Append(data, IdArg)
      [] OTHER -> <<IdArg>>

BindsTemplate ==
    /\ "values" \in DOMAIN abound
    /\ Len(abound.values) = Len(Markers(atemplate))
    /\ abound.values = Expected(aop, acolumns)

\* C27: for every schema, one without fields included, and both dialects,
\* each aot_db call site binds as many values as its prepared statement has
\* placeholders, in the template's column order.
C27_CallSitesBindTemplate == aop \in {"save", "update", "remove", "find"} => BindsTemplate

\* the same for every helper but update of a schema without fields
C27_BindsTemplateWithFields ==
    (aop \in {"save", "remove", "find"} \/ (aop = "update" /\ Len(acolumns) > 0))
        => BindsTemplate

\* ------------------------------------------------------------------ claim C28
\* the children that are alive and were sent no kill signal
Live == {p \in DOMAIN children : children[p] = "running"}

\* C28: under every interleaving of file changes, timer firings, compile
\* completions and child exits, at most one child is alive that was sent no
\* kill signal, and it is the one serverProcess refers to.
C28_OneLiveServer ==
    /\ Cardinality(Live) <= 1
    /\ \A p \in Live : serverProcess = p

\* serverProcess refers to no child or to the one spawned last
C28_ReferenceIsLatest == serverProcess \in {0, Len(children)}

\* ------------------------------------------------------------------ claim C29
Idle == {pool[k] : k \in DOMAIN pool}
Waiting == {c \in Clients : ticket[c] # 0}

\* no connection has two holders or is both idle and in use, and there are
\* never more than maxSize connections in use and idle together
PoolConsistent ==
    /\ \A c, d \in Clients : (c # d /\ held[c] # 0) => held[c] # held[d]
    /\ inUse = {held[c] : c \in Clients} \ {0}
    /\ Idle \cap inUse = {}
    /\ Cardinality(Idle) = Len(pool)
    /\ Cardinality(inUse) + Len(pool) <= maxSize

\* a waiting caller gets a connection only in a step in which a holder
\* releases that connection, and only if no caller has waited longer
ServedOnReleaseInOrder ==
    \A w \in Waiting :
        held'[w] # 0 =>
            /\ \E c \in Clients \ {w} : held[c] = held'[w] /\ held'[c] = 0
            /\ \A v \in Waiting : ticket[w] <= ticket[v]

\* C29: no connection is held twice or both idle and in use, in use plus
\* idle never exceeds maxSize, a caller that found the pool exhausted gets a
\* connection only when a holder releases one, and waiting callers are
\* served in arrival order.
C29_PoolIsExclusiveAndFair == [](PoolConsistent) /\ [][ServedOnReleaseInOrder]_vars

\* the pool was exhausted, two callers waited, the first was served on a
\* release and the second still waits
C29_Witness ==
    /\ acquires = maxSize + 2
    /\ handed = 1
    /\ Len(waitingQueue) = 1
    /\ Cardinality(inUse) = maxSize

\* ------------------------------------------------------------------ claim C30
\* C30: every statement the callback of transaction runs is run on the
\* client that issued BEGIN, inside its open block, also while other
\* requests hold clients of the pool; so a rollback undoes them all.
C30_StatementsOnTransactionClient ==
    \A k \in DOMAIN tstmts : tstmts[k].client = tclient /\ tstmts[k].inBlock

\* BEGIN and its COMMIT or ROLLBACK are issued on one client, which no other
\* request holds meanwhile
C30_BlockOnOneClient ==
    tpc \in {"connected", "callback"} => (tclient # 0 /\ tclient \notin checkedOut)

====
